---- MODULE Spec2Model ----
(***************************************************************************)
(* The service cache of servicer (src/dispatch/mod.rs) and the SkyPilot    *)
(* orchestrator that works on it (src/orchestrator/sky/mod.rs).            *)
(*                                                                         *)
(* The cache is one process-wide Arc<Mutex<HashMap<String, Service>>>.     *)
(* Callers run Dispatcher methods on their own threads; readiness pollers  *)
(* run as tasks on the tokio worker.  A step of the model is a piece of    *)
(* code that runs without giving up the mutex, or one blocking I/O call    *)
(* (a subprocess, an HTTP request, a file operation).  Whoever owns the    *)
(* MutexGuard between two steps is recorded in `lock`.                      *)
(*                                                                         *)
(* Option<T> is modelled as a sequence: <<>> is None, <<x>> is Some(x).    *)
(*                                                                         *)
(* Spec is the cache under two concurrent callers.  SpecPersist adds save, *)
(* load, their base64 forms, the reconcile jobs of load, process restarts  *)
(* and the poisoning of the mutex, with one caller.  SpecLive adds the     *)
(* runtime's single worker thread and fairness, with one caller; SpecPoll  *)
(* is SpecLive without the assumption that a probe ever answers ready.     *)
(* SpecMerge applies Configuration::update to given configurations and     *)
(* overrides.  SpecShare constructs Dispatchers over the static CACHE.     *)
(* SpecReload runs add_service, save and load on one thread beside up on   *)
(* another.                                                                *)
(***************************************************************************)
EXTENDS Naturals, Sequences, FiniteSets, TLC

\* ---------------------------------------------------------------- bounds
\* caller-facing calls started in one behaviour
MaxCalls == 4
\* readiness pollers alive at once
MaxTasks == 2
\* calls started in one behaviour of the specification with persistence
MaxPersistCalls == 4
\* reconcile jobs of load alive at once
MaxJobs == 1
\* calls started in one behaviour of the specification with the worker thread
MaxLiveCalls == 5
\* updates of one Configuration with one override
MaxUpdates == 2
\* Dispatcher objects constructed in one process
MaxDispatchers == 2
\* calls started in one behaviour of the specification of load beside up
MaxReloadCalls == 4

\* ------------------------------------------------------ the small universe
Names == {"a", "b"}
Callers == {"c1", "c2"}
TaskIds == 1..MaxTasks
JobIds == 1..MaxJobs
Endpoints == {"10.0.0.5:30000", "10.0.0.6:30001"}
CACHE_DIR == ".servicing"
NoHolder == "free"
\* the mutex after a thread panicked with the guard alive
Poisoned == "poisoned"

None == <<>>
Some(x) == <<x>>
IsSome(o) == o # <<>>

\* The Dispatcher objects a process may construct
Dispatchers == 1..MaxDispatchers

\* Orchestrators (src/orchestrator/mod.rs:14-17)
Orchestrators == {"SkyPilot", "Local"}

\* The fields of UserProvidedConfig, in the order of the struct
ConfigFields ==
    <<"port", "replicas", "readiness_probe", "replica_up_check", "cloud",
      "workdir", "disk_size", "cpu", "memory", "accelerators", "setup", "run">>
ConfigFieldSet == {ConfigFields[i] : i \in 1..Len(ConfigFields)}

\* the Option<u16> fields; the others are Option<String>
U16Fields == {"port", "replicas", "disk_size"}

\* A UserProvidedConfig with every field None
NoOverride == [f \in ConfigFieldSet |-> None]

\* Option<UserProvidedConfig>: no override, or a sparse override
Configs == {None, Some([NoOverride EXCEPT !.port = Some(9000)])}

\* helper::create_file(&pwd, name + "_service.yaml")
ServiceFile(name) == CACHE_DIR \o "/" \o name \o "_service.yaml"

\* Configuration::default().service.readiness_probe: the Sky built by
\* get_orchestrator() is Sky::default(), and Sky::up never updates its template
DefaultReadinessProbe == "/health"

\* Sky::replica_check_string
ReplicaCheckString == "no ready replicas"

\* An add_service that inserts its record as up
NewServiceUp(name, orch, config) ==
    [config |-> config,
     orchestrator |-> orch,
     filepath |-> Some(ServiceFile(name)),
     readiness_probe |-> "/",
     url |-> None,
     up |-> TRUE]

\* An add_service that stores the template's readiness path in the record
NewServiceDefaultProbe(name, orch, config) ==
    [config |-> config,
     orchestrator |-> orch,
     filepath |-> Some(ServiceFile(name)),
     readiness_probe |-> DefaultReadinessProbe,
     url |-> None,
     up |-> FALSE]

\* The record add_service inserts
NewService(name, orch, config) ==
    [config |-> config,
     orchestrator |-> orch,
     filepath |-> Some(ServiceFile(name)),
     readiness_probe |-> "/",
     url |-> None,
     up |-> FALSE]

\* An insert that keeps the record of a name that is already a key
InsertKeep(m, name, rec) ==
    [n \in DOMAIN m \cup {name} |-> IF n \in DOMAIN m THEN m[n] ELSE rec]

\* HashMap::insert / HashMap::remove on the cache
Insert(m, name, rec) ==
    [n \in DOMAIN m \cup {name} |-> IF n = name THEN rec ELSE m[n]]
Remove(m, name) == [n \in DOMAIN m \ {name} |-> m[n]]

\* ------------------------------------------------------------ persistence
\* bincode writes a value as a sequence of fixed-width integers and
\* length-prefixed strings; a word of the model is one of the two
IntWord(n) == [k |-> "int", n |-> n, s |-> ""]
StrWord(x) == [k |-> "str", n |-> 0, s |-> x]

EncStr(x) == <<StrWord(x)>>
EncU16(n) == <<IntWord(n)>>

\* A bool encoder that writes every bool as 0
EncBoolZero(b) == <<IntWord(0)>>

\* bool: one byte, 0 or 1
EncBool(b) == <<IntWord(IF b THEN 1 ELSE 0)>>

\* Option<T>: the tag 0, or the tag 1 and the value
EncTag(o) == <<IntWord(IF o = None THEN 0 ELSE 1)>>
EncOptionStr(o) == EncTag(o) \o (IF o = None THEN <<>> ELSE EncStr(o[1]))
EncOptionU16(o) == EncTag(o) \o (IF o = None THEN <<>> ELSE EncU16(o[1]))

\* derive(Serialize) on UserProvidedConfig: the fields in order, from field i
RECURSIVE EncFields(_, _)
EncFields(cfg, i) ==
    IF i > Len(ConfigFields) THEN <<>>
    ELSE LET f == ConfigFields[i] IN
         (IF f \in U16Fields THEN EncOptionU16(cfg[f])
                              ELSE EncOptionStr(cfg[f]))
         \o EncFields(cfg, i + 1)

EncConfig(cfg) == EncFields(cfg, 1)
EncOptionConfig(o) == EncTag(o) \o (IF o = None THEN <<>> ELSE EncConfig(o[1]))

\* derive(Serialize) on Orchestrators: the index of the variant
EncOrchestrator(o) == <<IntWord(IF o = "SkyPilot" THEN 0 ELSE 1)>>

\* derive(Serialize) on Service: the fields in order
EncService(svc) ==
    EncOptionConfig(svc.config)
    \o EncOrchestrator(svc.orchestrator)
    \o EncOptionStr(svc.filepath)
    \o EncStr(svc.readiness_probe)
    \o EncOptionStr(svc.url)
    \o EncBool(svc.up)

\* The orders in which a HashMap with key set S can be iterated
Orders(S) ==
    {o \in [1..Cardinality(S) -> S] :
        \A i \in DOMAIN o, j \in DOMAIN o : o[i] = o[j] => i = j}

RECURSIVE EncEntries(_, _, _)
EncEntries(m, order, i) ==
    IF i > Len(order) THEN <<>>
    ELSE EncStr(order[i]) \o EncService(m[order[i]]) \o EncEntries(m, order, i + 1)

\* bincode::serialize of the map: the number of entries, then each key and
\* value in the map's iteration order
Serialize(m, order) == <<IntWord(Len(order))>> \o EncEntries(m, order, 1)

\* Decoders read from position i and give the value and the next position
DecStr(bs, i) == [v |-> bs[i].s, i |-> i + 1]
DecU16(bs, i) == [v |-> bs[i].n, i |-> i + 1]
DecBool(bs, i) == [v |-> bs[i].n = 1, i |-> i + 1]
DecOrchestrator(bs, i) ==
    [v |-> IF bs[i].n = 0 THEN "SkyPilot" ELSE "Local", i |-> i + 1]

\* Option<T>: the tag, then the value when the tag is 1
DecOptionStr(bs, i) ==
    IF bs[i].n = 0 THEN [v |-> None, i |-> i + 1]
    ELSE LET r == DecStr(bs, i + 1) IN [v |-> Some(r.v), i |-> r.i]
DecOptionU16(bs, i) ==
    IF bs[i].n = 0 THEN [v |-> None, i |-> i + 1]
    ELSE LET r == DecU16(bs, i + 1) IN [v |-> Some(r.v), i |-> r.i]

RECURSIVE DecFields(_, _, _, _)
DecFields(bs, i, k, acc) ==
    IF k > Len(ConfigFields) THEN [v |-> acc, i |-> i]
    ELSE LET f == ConfigFields[k]
             r == IF f \in U16Fields THEN DecOptionU16(bs, i)
                                      ELSE DecOptionStr(bs, i)
         IN  DecFields(bs, r.i, k + 1, [acc EXCEPT ![f] = r.v])

DecConfig(bs, i) == DecFields(bs, i, 1, NoOverride)
DecOptionConfig(bs, i) ==
    IF bs[i].n = 0 THEN [v |-> None, i |-> i + 1]
    ELSE LET r == DecConfig(bs, i + 1) IN [v |-> Some(r.v), i |-> r.i]

DecService(bs, i) ==
    LET config == DecOptionConfig(bs, i)
        orch   == DecOrchestrator(bs, config.i)
        path   == DecOptionStr(bs, orch.i)
        probe  == DecStr(bs, path.i)
        url    == DecOptionStr(bs, probe.i)
        up     == DecBool(bs, url.i)
    IN  [v |-> [config |-> config.v, orchestrator |-> orch.v,
                filepath |-> path.v, readiness_probe |-> probe.v,
                url |-> url.v, up |-> up.v],
         i |-> up.i]

RECURSIVE DecEntries(_, _, _, _)
DecEntries(bs, i, k, acc) ==
    IF k = 0 THEN acc
    ELSE LET key == DecStr(bs, i)
             svc == DecService(bs, key.i)
         IN  DecEntries(bs, svc.i, k - 1, Insert(acc, key.v, svc.v))

\* bincode::deserialize::<HashMap<String, Service>>: an error (None) on an
\* input that ends before the map does, else the map
Deserialize(bs) ==
    IF bs = <<>> THEN None ELSE Some(DecEntries(bs, 2, bs[1].n, <<>>))

\* BASE64_STANDARD.encode: one group of four characters for every three
\* bytes, the last group padded; a string is the sequence of its groups
B64Groups(bs) == (Len(bs) + 2) \div 3
B64Encode(bs) ==
    [g \in 1..B64Groups(bs) |->
        SubSeq(bs, 3 * g - 2, IF 3 * g < Len(bs) THEN 3 * g ELSE Len(bs))]

\* Only the last group of a base64 string may be padded, and no group is empty
IsBase64(x) ==
    \A g \in 1..Len(x) :
        /\ Len(x[g]) \in 1..3
        /\ g < Len(x) => Len(x[g]) = 3

RECURSIVE B64Bytes(_, _)
B64Bytes(x, g) == IF g > Len(x) THEN <<>> ELSE x[g] \o B64Bytes(x, g + 1)

\* BASE64_STANDARD.decode: an error (None) or the bytes
B64Decode(x) == IF IsBase64(x) THEN Some(B64Bytes(x, 1)) ELSE None

\* A merge in which the entries already in the map win
ExtendKeep(m, p) ==
    [n \in DOMAIN m \cup DOMAIN p |-> IF n \in DOMAIN m THEN m[n] ELSE p[n]]

\* HashMap::extend: every loaded entry is inserted over what is there
Extend(m, p) ==
    [n \in DOMAIN m \cup DOMAIN p |-> IF n \in DOMAIN p THEN p[n] ELSE m[n]]

\* ---------------------------------------------------------- configuration
\* Configuration::default()
DefaultConfiguration ==
    [service |-> [readiness_probe |-> "/health", replicas |-> 2],
     resources |-> [ports |-> 8080, cloud |-> "aws", cpus |-> "4+",
                    memory |-> "10+", disk_size |-> 100, accelerators |-> None],
     workdir |-> ".",
     setup |-> "conda install cudatoolkit -y\npip install poetry\npoetry install\n",
     run |-> "poetry run python service.py\n"]

\* test_config()
TestConfiguration ==
    [service |-> [readiness_probe |-> "/", replicas |-> 1],
     resources |-> [ports |-> 8080, cloud |-> "aws", cpus |-> "4+",
                    memory |-> "10+", disk_size |-> 50, accelerators |-> None],
     workdir |-> ".",
     setup |-> "",
     run |-> "python -m http.server 8080\n"]

\* The value an override carries in a field, when the field is present
OverrideValue(f) ==
    CASE f = "port" -> 9000
      [] f = "replicas" -> 3
      [] f = "disk_size" -> 256
      [] f = "readiness_probe" -> "/ready"
      [] OTHER -> "user " \o f

\* The sparse overrides: every field absent or present
Overrides ==
    {[f \in ConfigFieldSet |-> IF f \in present THEN Some(OverrideValue(f)) ELSE None] :
        present \in SUBSET ConfigFieldSet}

\* A Configuration::update that adds the override's replicas to the
\* configuration's (u16 arithmetic)
UpdateAdding(cfg, config) ==
    IF IsSome(config.replicas)
       THEN [cfg EXCEPT !.service.replicas =
                (cfg.service.replicas + config.replicas[1]) % 65536]
       ELSE cfg

\* Configuration::update: one `if let Some(..)` after the other, in the
\* order of the code
Update(cfg, config) ==
    LET c1 == IF IsSome(config.port)
                 THEN [cfg EXCEPT !.resources.ports = config.port[1]] ELSE cfg
        c2 == IF IsSome(config.replicas)
                 THEN [c1 EXCEPT !.service.replicas = config.replicas[1]] ELSE c1
        c3 == IF IsSome(config.cloud)
                 THEN [c2 EXCEPT !.resources.cloud = config.cloud[1]] ELSE c2
        c4 == IF IsSome(config.workdir)
                 THEN [c3 EXCEPT !.workdir = config.workdir[1]] ELSE c3
        c5 == IF IsSome(config.disk_size)
                 THEN [c4 EXCEPT !.resources.disk_size = config.disk_size[1]] ELSE c4
        c6 == IF IsSome(config.cpu)
                 THEN [c5 EXCEPT !.resources.cpus = config.cpu[1]] ELSE c5
        c7 == IF IsSome(config.memory)
                 THEN [c6 EXCEPT !.resources.memory = config.memory[1]] ELSE c6
        c8 == IF IsSome(config.setup)
                 THEN [c7 EXCEPT !.setup = config.setup[1]] ELSE c7
        c9 == IF IsSome(config.run)
                 THEN [c8 EXCEPT !.run = config.run[1]] ELSE c8
    IN  IF IsSome(config.accelerators)
           THEN [c9 EXCEPT !.resources.accelerators = Some(config.accelerators[1])]
           ELSE c9

\* ------------------------------------------------------------------ state
VARIABLES
    cache,      \* the HashMap behind the mutex: name -> Service
    lock,       \* the caller that owns the MutexGuard between steps, or NoHolder
    files,      \* the service configuration files that exist on disk
    regex_url,  \* REGEX_URL (a OnceLock) has been initialised
    call,       \* per caller: the call in progress, its position and result
    tasks,      \* the readiness pollers spawned by Sky::up
    calls,      \* number of calls started so far
    disk,       \* Option: the bytes of .servicing/services.bin
    b64,        \* Option: the string save_as_b64 returned last
    jobs,       \* the reconcile jobs spawned by load
    merge,      \* a Configuration, an override and the updates applied so far
    share       \* the static CACHE, the maps allocated, who refers to which

vars == <<cache, lock, files, regex_url, call, tasks, calls, disk, b64, jobs,
          merge, share>>

\* What outlives the cache, and the jobs of load
persist == <<disk, b64, jobs>>

\* What the Dispatcher methods leave alone: the state of the specifications
\* of Configuration::update and of Dispatcher::new
aside == <<merge, share>>

IdleCall ==
    [pc |-> "idle", op |-> "none", name |-> "", force |-> FALSE,
     update_status |-> FALSE, data |-> <<>>, bin |-> None,
     svc |-> None, launched |-> FALSE, exit |-> "", resp |-> None,
     result |-> "", value |-> None]

NoTask == [pc |-> "none", name |-> "", url |-> ""]

NoJob == [pc |-> "none", checks |-> <<>>, res |-> <<>>, next |-> 0]

\* No Dispatcher is constructed: CACHE is not initialised, no map is
\* allocated; pollers[t] is the map a poller refers to and the name it polls
NoShare ==
    [CACHE |-> None,
     cells |-> <<>>,
     services |-> [d \in Dispatchers |-> None],
     pollers |-> [t \in TaskIds |-> None]]

\* No Configuration is being updated
NoMerge ==
    [c |-> DefaultConfiguration, o |-> NoOverride,
     template |-> DefaultConfiguration, n |-> 0]

Init ==
    /\ cache = <<>>
    /\ lock = NoHolder
    /\ files = {}
    /\ regex_url = FALSE
    /\ call = [c \in Callers |-> IdleCall]
    /\ tasks = [t \in TaskIds |-> NoTask]
    /\ calls = 0
    /\ disk = None
    /\ b64 = None
    /\ jobs = [j \in JobIds |-> NoJob]
    /\ merge = NoMerge
    /\ share = NoShare

\* The call of caller c ends with result r (and returned value v)
Finish(c, r, v) ==
    call' = [call EXCEPT ![c].pc = "done", ![c].result = r, ![c].value = v]

Goto(c, pc) == call' = [call EXCEPT ![c].pc = pc]

\* The caller enters a Dispatcher method
Ops == {"add_service", "remove_service", "up", "down", "status", "get_url", "list"}

Invoke(c) ==
    /\ call[c].pc = "idle"
    /\ calls < MaxCalls
    /\ \E op \in Ops, name \in Names, force \in BOOLEAN :
          /\ (op # "down" => force = FALSE)
          /\ call' = [call EXCEPT ![c] =
                        [IdleCall EXCEPT !.pc = "entry", !.op = op,
                                         !.name = name, !.force = force]]
    /\ calls' = calls + 1
    /\ UNCHANGED <<cache, lock, files, regex_url, tasks>>
    /\ UNCHANGED persist
    /\ UNCHANGED aside

\* The Python caller receives the result
Return(c) ==
    /\ call[c].pc = "done"
    /\ call' = [call EXCEPT ![c] = IdleCall]
    /\ UNCHANGED <<cache, lock, files, regex_url, tasks, calls>>
    /\ UNCHANGED persist
    /\ UNCHANGED aside


\* Mutex::lock() returns once nobody owns the guard
LockFree == lock = NoHolder

\* ------------------------------------------------------------ add_service
\* Outcomes of the I/O in add_service before the cache is touched:
\* create_directory, check_python_package_installed, create_file, write_to_file
SetupOutcomes == {"dir_fail", "no_pip", "create_fail", "write_fail", "ok"}

\* Dispatcher::add_service up to and including Orchestrator::setup
AddSetup(c) ==
    /\ call[c].pc = "entry" /\ call[c].op = "add_service"
    /\ \E orch \in Orchestrators, out \in SetupOutcomes :
          LET name == call[c].name IN
          IF out = "dir_fail" THEN
              /\ Finish(c, "IO", None)
              /\ UNCHANGED <<files, regex_url>>
          ELSE IF orch = "Local" THEN
              \* get_orchestrator panics; no guard is alive here
              /\ Finish(c, "panic", None)
              /\ UNCHANGED <<files, regex_url>>
          ELSE IF out = "no_pip" THEN
              /\ Finish(c, "PipPackageError", None)
              /\ UNCHANGED <<files, regex_url>>
          ELSE IF out = "create_fail" THEN
              /\ Finish(c, "IO", None)
              /\ regex_url' = TRUE
              /\ UNCHANGED files
          ELSE IF out = "write_fail" THEN
              /\ Finish(c, "IO", None)
              /\ regex_url' = TRUE
              /\ files' = files \cup {ServiceFile(name)}
          ELSE
              /\ \E config \in Configs :
                    call' = [call EXCEPT ![c].pc = "insert",
                                         ![c].svc = Some(NewService(name, orch, config))]
              /\ regex_url' = TRUE
              /\ files' = files \cup {ServiceFile(name)}
    /\ UNCHANGED <<cache, lock, tasks, calls>>
    /\ UNCHANGED persist
    /\ UNCHANGED aside

\* self.services.lock()?.insert(name, Service {..})
AddInsert(c) ==
    /\ call[c].pc = "insert"
    /\ LockFree
    /\ cache' = Insert(cache, call[c].name, call[c].svc[1])
    /\ Finish(c, "Ok", None)
    /\ UNCHANGED <<lock, files, regex_url, tasks, calls>>
    /\ UNCHANGED persist
    /\ UNCHANGED aside

\* ------------------------------------------ Dispatcher::{up, down, status}
\* The drop of the MutexGuard `services`: in the unwinding of a panic it
\* marks the mutex poisoned, else it only unlocks
DropGuard(panicking) == IF panicking THEN Poisoned ELSE NoHolder

\* lock, look the name up, build the orchestrator, drop the guard;
\* get_orchestrator panics on Orchestrators::Local while `services` is alive,
\* and the unwinding drop of the guard poisons the mutex
Dispatch(c) ==
    /\ call[c].pc = "entry" /\ call[c].op \in {"up", "down", "status"}
    /\ LockFree
    /\ IF call[c].name \notin DOMAIN cache THEN
           /\ Finish(c, "ServiceNotFound", None)
           /\ UNCHANGED lock
       ELSE IF cache[call[c].name].orchestrator = "Local" THEN
           /\ Finish(c, "panic", None)
           /\ lock' = DropGuard(TRUE)
       ELSE
           /\ Goto(c, "sky")
           /\ UNCHANGED lock
    /\ UNCHANGED <<cache, files, regex_url, tasks, calls>>
    /\ UNCHANGED persist
    /\ UNCHANGED aside

\* -------------------------------------------------------- remove_service
\* services.remove(&name): the record is taken out of the map and kept in
\* the local `service`; then the guard is dropped (by the panic of
\* get_orchestrator when the record is an Orchestrators::Local)
DispatchRemove(c) ==
    /\ call[c].pc = "entry" /\ call[c].op = "remove_service"
    /\ LockFree
    /\ IF call[c].name \notin DOMAIN cache THEN
           /\ Finish(c, "ServiceNotFound", None)
           /\ UNCHANGED <<cache, lock>>
       ELSE IF cache[call[c].name].orchestrator = "Local" THEN
           /\ call' = [call EXCEPT ![c].pc = "done", ![c].result = "panic",
                                   ![c].svc = Some(cache[call[c].name])]
           /\ cache' = Remove(cache, call[c].name)
           /\ lock' = DropGuard(TRUE)
       ELSE
           /\ call' = [call EXCEPT ![c].pc = "sky",
                                   ![c].svc = Some(cache[call[c].name])]
           /\ cache' = Remove(cache, call[c].name)
           /\ UNCHANGED lock
    /\ UNCHANGED <<files, regex_url, tasks, calls>>
    /\ UNCHANGED persist
    /\ UNCHANGED aside

\* Sky::remove refuses a service that is up or has a url
RemoveRefused(svc) == svc.up \/ IsSome(svc.url)

\* A Sky::remove that takes a missing record as removed
RemoveMissingIsOk(name) == "Ok"

\* What Sky::remove returns when the name is not in the cache (lines 72-73)
RemoveMissing(name) == "ServiceNotFound"

\* Sky::remove: lock, look the name up again, check, start deleting the file
SkyRemoveCheck(c) ==
    /\ call[c].pc = "sky" /\ call[c].op = "remove_service"
    /\ LockFree
    /\ LET name == call[c].name IN
       IF name \notin DOMAIN cache THEN
           /\ Finish(c, RemoveMissing(name), None)
           /\ UNCHANGED <<cache, lock>>
       ELSE IF RemoveRefused(cache[name]) THEN
           /\ Finish(c, "ClusterProvisionError", None)
           /\ UNCHANGED <<cache, lock>>
       ELSE IF IsSome(cache[name].filepath) THEN
           /\ Goto(c, "remove_delete")
           /\ lock' = c
           /\ UNCHANGED cache
       ELSE
           /\ cache' = Remove(cache, name)
           /\ Finish(c, "Ok", None)
           /\ UNCHANGED lock
    /\ UNCHANGED <<files, regex_url, tasks, calls>>
    /\ UNCHANGED persist
    /\ UNCHANGED aside

\* helper::delete_file(filepath)?  then  service.remove(&name)
RemoveDelete(c) ==
    /\ call[c].pc = "remove_delete"
    /\ LET name == call[c].name
           path == cache[name].filepath[1] IN
       \/ /\ path \in files
          /\ files' = files \ {path}
          /\ cache' = Remove(cache, name)
          /\ Finish(c, "Ok", None)
       \/ /\ Finish(c, "IO", None)
          /\ UNCHANGED <<cache, files>>
    /\ lock' = NoHolder
    /\ UNCHANGED <<regex_url, tasks, calls>>
    /\ UNCHANGED persist
    /\ UNCHANGED aside

\* ------------------------------------------------------------------ up
\* A Sky::up that tests `up` where the code tests `url`
UpRefusedIfUp(svc) == svc.up

\* Sky::up refuses a record that already has a url (lines 94-99)
UpRefused(svc) == IsSome(svc.url)

\* A Sky::up that never misses the file path
UpNoPathNever(svc) == FALSE

\* Sky::up has no file to give to `sky serve up`:
\* service.filepath.as_ref().ok_or(General("filepath not found"))? (lines 105-110)
UpNoPath(svc) == ~IsSome(svc.filepath)

\* A Sky::up that drops the guard before it spawns the subprocess
UpGuardDropped(c) == NoHolder

\* The owner of the cache guard while Sky::up runs its subprocesses: the
\* guard is a temporary of the `if let` scrutinee at line 93 and the borrowed
\* `service` is written at line 146, so the caller keeps it until it returns
UpGuard(c) == c

\* Sky::up: lock, look the name up, check the url and the file path, spawn
\* `sky serve up -n <name> <file>`
SkyUpCheck(c) ==
    /\ call[c].pc = "sky" /\ call[c].op = "up"
    /\ LockFree
    /\ LET name == call[c].name IN
       IF name \notin DOMAIN cache THEN
           /\ Finish(c, "ServiceNotFound", None)
           /\ UNCHANGED lock
       ELSE IF UpRefused(cache[name]) THEN
           /\ Finish(c, "ClusterProvisionError", None)
           /\ UNCHANGED lock
       ELSE IF UpNoPath(cache[name]) THEN
           /\ Finish(c, "General", None)
           /\ UNCHANGED lock
       ELSE
           \/ \* cmd.spawn()? fails
              /\ Finish(c, "IO", None)
              /\ UNCHANGED lock
           \/ /\ call' = [call EXCEPT ![c].pc = "up_wait", ![c].launched = TRUE]
              /\ lock' = UpGuard(c)
    /\ UNCHANGED <<cache, files, regex_url, tasks, calls>>
    /\ UNCHANGED persist
    /\ UNCHANGED aside

\* How the bring-up subprocess ends: child.wait() fails, or gives an exit status
WaitOutcomes == {"wait_err", "nonzero", "exit0"}

\* child.wait()? and the check of the exit status (lines 118-124)
UpWait(c) ==
    /\ call[c].pc = "up_wait"
    /\ \E out \in WaitOutcomes :
          CASE out = "wait_err" -> Finish(c, "IO", None) /\ lock' = NoHolder
            [] out = "nonzero"  -> Finish(c, "ClusterProvisionError", None)
                                   /\ lock' = NoHolder
            [] out = "exit0"    -> Goto(c, "up_status") /\ UNCHANGED lock
    /\ UNCHANGED <<cache, files, regex_url, tasks, calls>>
    /\ UNCHANGED persist
    /\ UNCHANGED aside

\* What `sky serve status <name>` prints, as a sequence of tokens
Tokens == Endpoints \cup {"Service", "999.1:80"}
StatusOutputs ==
    {<<>>} \cup {<<t>> : t \in Tokens} \cup {<<t, u>> : t \in Tokens, u \in Tokens}

\* A token that \b(?:\d{1,3}\.){3}\d{1,3}:\d+\b matches
IsIpPort(tok) == tok \in Endpoints

\* Regex::find: the leftmost match, if any
RegexFind(out) ==
    IF \E i \in 1..Len(out) : IsIpPort(out[i])
       THEN Some(out[CHOOSE i \in 1..Len(out) :
                       /\ IsIpPort(out[i])
                       /\ \A j \in 1..(i - 1) : ~IsIpPort(out[j])])
       ELSE None

\* The url the poller fetches: http:// + url + template.service.readiness_probe
ProbeUrl(url) == "http://" \o url \o DefaultReadinessProbe

FreeTasks == {t \in TaskIds : tasks[t].pc = "none"}
FirstFree == CHOOSE t \in FreeTasks : \A u \in FreeTasks : t <= u

\* tokio::spawn(fut)
Spawn(name, url) ==
    tasks' = [tasks EXCEPT ![FirstFree] =
                [pc |-> "fetch", name |-> name, url |-> ProbeUrl(url)]]

\* `sky serve status <name>`, the regex, service.url = Some(url), the spawn of
\* the poller, return Ok (lines 126-187)
UpStatus(c) ==
    /\ call[c].pc = "up_status"
    /\ LET name == call[c].name IN
       \/ \* Command::output()? fails
          /\ Finish(c, "IO", None)
          /\ UNCHANGED <<cache, tasks>>
       \/ /\ ~regex_url
          /\ Finish(c, "General", None)
          /\ UNCHANGED <<cache, tasks>>
       \/ /\ regex_url
          /\ \E out \in StatusOutputs :
                IF RegexFind(out) = None THEN
                    /\ Finish(c, "General", None)
                    /\ UNCHANGED <<cache, tasks>>
                ELSE
                    /\ FreeTasks # {}
                    /\ cache' = [cache EXCEPT ![name].url = RegexFind(out)]
                    /\ Spawn(name, RegexFind(out)[1])
                    /\ Finish(c, "Ok", None)
    /\ lock' = NoHolder
    /\ UNCHANGED <<files, regex_url, calls>>
    /\ UNCHANGED persist
    /\ UNCHANGED aside

\* ---------------------------------------------------------------- poller
\* helper::fetch: a transport error, or the body of the response
Bodies == {"No ready replicas", "ok"}
Responses == {None} \cup {Some(b) : b \in Bodies}

\* resp.to_lowercase().contains(replica_check_string)
NotReady(body) == body \in {"No ready replicas", ReplicaCheckString}

\* A poller that sleeps and fetches again after a transport error
PollNextRetry(t, resp) ==
    IF resp = None \/ NotReady(resp[1]) THEN [tasks EXCEPT ![t].pc = "sleep"]
    ELSE [tasks EXCEPT ![t].pc = "lock"]

\* The pollers after poller t got resp from helper::fetch: Err breaks out of
\* the loop and the task ends (lines 178-181), a body with the marker sleeps
\* (lines 158-160), any other body goes on to the lock (line 162)
PollNext(t, resp) ==
    IF resp = None THEN [tasks EXCEPT ![t] = NoTask]
    ELSE IF NotReady(resp[1]) THEN [tasks EXCEPT ![t].pc = "sleep"]
    ELSE [tasks EXCEPT ![t].pc = "lock"]

\* one helper::fetch of the poller's loop (lines 156-161, 178-181)
PollFetch(t) ==
    /\ tasks[t].pc = "fetch"
    /\ \E resp \in Responses : tasks' = PollNext(t, resp)
    /\ UNCHANGED <<cache, lock, files, regex_url, call, calls>>
    /\ UNCHANGED persist
    /\ UNCHANGED aside

\* sleep(SERVICE_CHECK_INTERVAL).await; continue
PollSleep(t) ==
    /\ tasks[t].pc = "sleep"
    /\ tasks' = [tasks EXCEPT ![t].pc = "fetch"]
    /\ UNCHANGED <<cache, lock, files, regex_url, call, calls>>
    /\ UNCHANGED persist
    /\ UNCHANGED aside

\* A poller that inserts a record when it finds none
PollWriteUpsert(m, name) ==
    IF name \in DOMAIN m THEN [m EXCEPT ![name].up = TRUE]
    ELSE Insert(m, name, NewServiceUp(name, "SkyPilot", None))

\* What the poller writes once the probe answered ready (lines 162-171)
PollWrite(m, name) ==
    IF name \in DOMAIN m THEN [m EXCEPT ![name].up = TRUE] ELSE m

\* match cache_clone.lock(): Ok writes and breaks, Err (a poisoned mutex)
\* logs and breaks (lines 162-176)
PollSet(t) ==
    /\ tasks[t].pc = "lock"
    /\ LockFree \/ lock = Poisoned
    /\ cache' = IF LockFree THEN PollWrite(cache, tasks[t].name) ELSE cache
    /\ tasks' = [tasks EXCEPT ![t] = NoTask]
    /\ UNCHANGED <<lock, files, regex_url, call, calls>>
    /\ UNCHANGED persist
    /\ UNCHANGED aside

\* ---------------------------------------------------------------- down
\* A Sky::down whose first match arm has no guard
DownClearsAlways(svc) == TRUE

\* Sky::down clears a record that is up or has a url (line 201)
DownClears(svc) == svc.up \/ IsSome(svc.url)

\* Sky::down: the match on the record (lines 200-211); the guard is dropped
\* at the end of the match
SkyDownCheck(c) ==
    /\ call[c].pc = "sky" /\ call[c].op = "down"
    /\ LockFree
    /\ LET name == call[c].name IN
       IF name \notin DOMAIN cache THEN
           /\ Finish(c, "ServiceNotFound", None)
           /\ UNCHANGED cache
       ELSE IF DownClears(cache[name]) THEN
           /\ cache' = [cache EXCEPT ![name].url = None, ![name].up = FALSE]
           /\ Goto(c, "down_run")
       ELSE IF ~call[c].force THEN
           /\ Finish(c, "ServiceNotUp", None)
           /\ UNCHANGED cache
       ELSE
           /\ Goto(c, "down_run")
           /\ UNCHANGED cache
    /\ UNCHANGED <<lock, files, regex_url, tasks, calls>>
    /\ UNCHANGED persist
    /\ UNCHANGED aside

\* How `sky serve down <name>` ends
DownOutcomes == {"spawn_err", "wait_err", "nonzero", "exit0"}

\* What Sky::down returns for each way its subprocess ends: spawn() and
\* wait() are followed by `?`, the ExitStatus that wait() gives is dropped
DownResult(out) == IF out \in {"spawn_err", "wait_err"} THEN "IO" ELSE "Ok"

\* cmd.spawn()?; child.wait()?; Ok(()) (lines 215-224); `exit` keeps how the
\* subprocess ended
DownRun(c) ==
    /\ call[c].pc = "down_run"
    /\ \E out \in DownOutcomes :
          call' = [call EXCEPT ![c].pc = "done", ![c].exit = out,
                               ![c].result = DownResult(out)]
    /\ UNCHANGED <<cache, lock, files, regex_url, tasks, calls>>
    /\ UNCHANGED persist
    /\ UNCHANGED aside

\* -------------------------------------------------------------- status
\* Sky::status: lock, look the name up, check the file path (lines 235-241)
SkyStatusCheck(c) ==
    /\ call[c].pc = "sky" /\ call[c].op = "status"
    /\ LockFree
    /\ LET name == call[c].name IN
       IF name \notin DOMAIN cache THEN
           /\ Finish(c, "ServiceNotFound", None)
           /\ UNCHANGED lock
       ELSE IF ~IsSome(cache[name].filepath) THEN
           /\ Finish(c, "General", None)
           /\ UNCHANGED lock
       ELSE
           /\ Goto(c, "status_read")
           /\ lock' = c
    /\ UNCHANGED <<cache, files, regex_url, tasks, calls>>
    /\ UNCHANGED persist
    /\ UNCHANGED aside

\* sky_helper::get_template_from_path under the guard, then either the
\* snapshot or the probe (lines 237-247, 278-281)
StatusRead(c) ==
    /\ call[c].pc = "status_read"
    /\ LET name == call[c].name
           svc == cache[name] IN
       \/ \* the file cannot be read
          /\ Finish(c, "IO", None)
          /\ lock' = NoHolder
       \/ \* the file is not a Configuration
          /\ svc.filepath[1] \in files
          /\ Finish(c, "SerdeYamlError", None)
          /\ lock' = NoHolder
       \/ /\ svc.filepath[1] \in files
          /\ IF svc.up /\ IsSome(svc.url)
                THEN Goto(c, "status_probe") /\ UNCHANGED lock
                ELSE Finish(c, "Ok", Some(svc)) /\ lock' = NoHolder
    /\ UNCHANGED <<cache, files, regex_url, tasks, calls>>
    /\ UNCHANGED persist
    /\ UNCHANGED aside

\* The probe of Sky::status answered and the body has no marker (lines 252-254)
ProbeReady(resp) == resp # None /\ ~NotReady(resp[1])

\* handle.block_on(fetch) under the guard, and the snapshot (lines 248-281);
\* `resp` keeps the local r of line 251
StatusProbe(c) ==
    /\ call[c].pc = "status_probe"
    /\ LET name == call[c].name IN
       \E resp \in Responses :
          LET after == IF ProbeReady(resp) THEN cache
                       ELSE [cache EXCEPT ![name].up = FALSE] IN
          /\ cache' = after
          /\ call' = [call EXCEPT ![c].pc = "done", ![c].resp = resp,
                                  ![c].result = "Ok",
                                  ![c].value = Some(after[name])]
    /\ lock' = NoHolder
    /\ UNCHANGED <<files, regex_url, tasks, calls>>
    /\ UNCHANGED persist
    /\ UNCHANGED aside

\* ------------------------------------------------------- get_url, list
\* A get_url that answers "Service is down" for every name without a url,
\* registered or not
GetUrlDownIfMissing(c) ==
    /\ call[c].pc = "entry" /\ call[c].op = "get_url"
    /\ LockFree
    /\ LET name == call[c].name IN
       IF name \in DOMAIN cache /\ IsSome(cache[name].url)
          THEN Finish(c, "Ok", cache[name].url)
          ELSE Finish(c, "General", None)
    /\ UNCHANGED <<cache, lock, files, regex_url, tasks, calls>>
    /\ UNCHANGED persist
    /\ UNCHANGED aside

\* A get_url that gives the url only of a record that is up
GetUrlWhenUp(c) ==
    /\ call[c].pc = "entry" /\ call[c].op = "get_url"
    /\ LockFree
    /\ LET name == call[c].name IN
       IF name \notin DOMAIN cache THEN Finish(c, "ServiceNotFound", None)
       ELSE IF cache[name].up THEN Finish(c, "Ok", cache[name].url)
       ELSE Finish(c, "General", None)
    /\ UNCHANGED <<cache, lock, files, regex_url, tasks, calls>>
    /\ UNCHANGED persist
    /\ UNCHANGED aside

\* Dispatcher::get_url
GetUrl(c) ==
    /\ call[c].pc = "entry" /\ call[c].op = "get_url"
    /\ LockFree
    /\ LET name == call[c].name IN
       IF name \notin DOMAIN cache THEN Finish(c, "ServiceNotFound", None)
       ELSE IF IsSome(cache[name].url) THEN Finish(c, "Ok", cache[name].url)
       ELSE Finish(c, "General", None)
    /\ UNCHANGED <<cache, lock, files, regex_url, tasks, calls>>
    /\ UNCHANGED persist
    /\ UNCHANGED aside

\* Dispatcher::list
List(c) ==
    /\ call[c].pc = "entry" /\ call[c].op = "list"
    /\ LockFree
    /\ Finish(c, "Ok", Some(DOMAIN cache))
    /\ UNCHANGED <<cache, lock, files, regex_url, tasks, calls>>
    /\ UNCHANGED persist
    /\ UNCHANGED aside

\* ------------------------------------------------- save, save_as_b64
PersistOps == {"save", "save_as_b64", "load", "load_from_b64"}

\* Strings a caller hands to load_from_b64: one that is not base64, the empty
\* string, and what save_as_b64 returned last
NotBase64 == << <<>> >>

\* A cache that was not saved by this program's add_service: a SkyPilot
\* record without filepath and a record of Orchestrators::Local
ForeignCache ==
    [n \in Names |->
        [config |-> None,
         orchestrator |-> IF n = "a" THEN "SkyPilot" ELSE "Local",
         filepath |-> IF n = "a" THEN None ELSE Some(ServiceFile(n)),
         readiness_probe |-> "/",
         url |-> None,
         up |-> FALSE]]

\* Its serialisation, as a base64 string
ForeignPayload == B64Encode(Serialize(ForeignCache, <<"a", "b">>))

B64Inputs ==
    {NotBase64, B64Encode(<<>>), ForeignPayload}
    \cup (IF b64 = None THEN {} ELSE {b64[1]})

\* With persistence one caller issues the calls, one after the other; the
\* pollers and the jobs run beside it
PersistCallers == {"c1"}

\* The caller enters any Dispatcher method, the persistence methods included;
\* `flag` is force for down and update_status for load
InvokePersist(c) ==
    /\ c \in PersistCallers
    /\ call[c].pc = "idle"
    /\ calls < MaxPersistCalls
    /\ \E op \in Ops \cup PersistOps, name \in Names \cup {""},
          flag \in BOOLEAN, data \in B64Inputs \cup {<<>>} :
          /\ (op \notin {"down", "load"} => flag = FALSE)
          /\ (op \in PersistOps <=> name = "")
          /\ (op = "load_from_b64" => data \in B64Inputs)
          /\ (op # "load_from_b64" => data = <<>>)
          /\ call' = [call EXCEPT ![c] =
                        [IdleCall EXCEPT !.pc = "entry", !.op = op, !.name = name,
                                         !.force = (op = "down" /\ flag),
                                         !.update_status = (op = "load" /\ flag),
                                         !.data = data]]
    /\ calls' = calls + 1
    /\ UNCHANGED <<cache, lock, files, regex_url, tasks, persist>>
    /\ UNCHANGED aside

\* let bin = bincode::serialize(&*self.services.lock()?)?  (line 184): the
\* guard is dropped at the end of the statement
SaveSerialize(c) ==
    /\ call[c].pc = "entry" /\ call[c].op = "save"
    /\ LockFree
    /\ \E order \in Orders(DOMAIN cache) :
          call' = [call EXCEPT ![c].pc = "save_write",
                               ![c].bin = Some(Serialize(cache, order))]
    /\ UNCHANGED <<cache, lock, files, regex_url, tasks, calls, persist>>
    /\ UNCHANGED aside

\* create_directory, create_file (File::create truncates), write_to_file_binary
SaveOutcomes == {"dir_fail", "create_fail", "write_fail", "ok"}

\* The file I/O of save (lines 186-205), without the lock
SaveWrite(c) ==
    /\ call[c].pc = "save_write"
    /\ \E out \in SaveOutcomes :
          CASE out \in {"dir_fail", "create_fail"} ->
                  Finish(c, "IO", None) /\ UNCHANGED disk
            [] out = "write_fail" ->
                  Finish(c, "IO", None) /\ disk' = Some(<<>>)
            [] out = "ok" ->
                  Finish(c, "Ok", None) /\ disk' = call[c].bin
    /\ UNCHANGED <<cache, lock, files, regex_url, tasks, calls, b64, jobs>>
    /\ UNCHANGED aside

\* Dispatcher::save_as_b64
SaveB64(c) ==
    /\ call[c].pc = "entry" /\ call[c].op = "save_as_b64"
    /\ LockFree
    /\ \E order \in Orders(DOMAIN cache) :
          b64' = Some(B64Encode(Serialize(cache, order)))
    /\ Finish(c, "Ok", b64')
    /\ UNCHANGED <<cache, lock, files, regex_url, tasks, calls, disk, jobs>>
    /\ UNCHANGED aside

\* ------------------------------------------------- load, load_from_b64
\* create_directory and helper::read_from_file_binary (lines 219-231)
LoadRead(c) ==
    /\ call[c].pc = "entry" /\ call[c].op = "load"
    /\ \/ \* the directory cannot be made, or the file cannot be read
          Finish(c, "IO", None)
       \/ /\ disk # None
          /\ call' = [call EXCEPT ![c].pc = "load_extend", ![c].bin = disk]
    /\ UNCHANGED <<cache, lock, files, regex_url, tasks, calls, persist>>
    /\ UNCHANGED aside

\* self.services.lock()?.extend(bincode::deserialize(&bin)?)  (lines 233-235)
LoadExtend(c) ==
    /\ call[c].pc = "load_extend"
    /\ LockFree
    /\ LET p == Deserialize(call[c].bin[1]) IN
       IF p = None THEN
           /\ Finish(c, "BinaryEncodeError", None)
           /\ UNCHANGED cache
       ELSE
           /\ cache' = Extend(cache, p[1])
           /\ IF call[c].update_status
                 THEN Goto(c, "load_scan")
                 ELSE Finish(c, "Ok", None)
    /\ UNCHANGED <<lock, files, regex_url, tasks, calls, persist>>
    /\ UNCHANGED aside

\* A load that checks every record that has a url
ToCheckAll(m) == {n \in DOMAIN m : IsSome(m[n].url)}

\* The records load checks: down, with a url (line 249)
ToCheck(m) == {n \in DOMAIN m : ~m[n].up /\ IsSome(m[n].url)}

\* The url load probes: http:// + url + the record's readiness_probe
ReconcileUrl(svc) == "http://" \o svc.url[1] \o svc.readiness_probe

FreeJobs == {j \in JobIds : jobs[j].pc = "none"}
FirstFreeJob == CHOOSE j \in FreeJobs : \A k \in FreeJobs : j <= k

\* The rest of load once service_to_check is collected: return Ok if it is
\* empty, else spawn the job on the runtime and return Ok (lines 265-322)
LoadSpawn(c) ==
    /\ IF ToCheck(cache) = {} THEN UNCHANGED jobs
       ELSE /\ FreeJobs # {}
            /\ \E order \in Orders(ToCheck(cache)) :
                  jobs' = [jobs EXCEPT ![FirstFreeJob] =
                      [pc |-> "run",
                       checks |-> [i \in DOMAIN order |->
                                     [name |-> order[i],
                                      url |-> ReconcileUrl(cache[order[i]])]],
                       res |-> [i \in DOMAIN order |-> "pending"],
                       next |-> 1]]
    /\ Finish(c, "Ok", None)
    /\ UNCHANGED <<cache, lock, files, regex_url, tasks, calls, disk, b64>>
    /\ UNCHANGED aside

\* The second lock of load: collect service_to_check (lines 245-262);
\* get_orchestrator of a Local record to check panics in the for_each, under
\* the guard (lines 258-261)
LoadScan(c) ==
    /\ call[c].pc = "load_scan"
    /\ LockFree
    /\ IF \E n \in ToCheck(cache) : cache[n].orchestrator = "Local" THEN
           /\ Finish(c, "panic", None)
           /\ lock' = DropGuard(TRUE)
           /\ UNCHANGED <<cache, files, regex_url, tasks, calls, persist>>
           /\ UNCHANGED aside
       ELSE LoadSpawn(c)

\* helper::fetch_and_check of one handle ends: Ok once a response has no
\* marker, Err on a transport error
CheckOutcomes == {"ok", "err"}
JobCheck(j) ==
    /\ jobs[j].pc = "run"
    /\ \E i \in DOMAIN jobs[j].res, out \in CheckOutcomes :
          /\ jobs[j].res[i] = "pending"
          /\ jobs' = [jobs EXCEPT ![j].res[i] = out]
    /\ UNCHANGED <<cache, lock, files, regex_url, call, tasks, calls, disk, b64>>
    /\ UNCHANGED aside

\* What the job writes for a name whose check gave Ok (lines 305-308)
ReconcileWrite(m, name) ==
    IF name \in DOMAIN m THEN [m EXCEPT ![name].up = TRUE] ELSE m

\* One turn of `for res in join_all(handles).await`: lock, match res; on a
\* poisoned mutex the job logs and returns (lines 296-302)
JobWrite(j) ==
    /\ jobs[j].pc = "run"
    /\ \A i \in DOMAIN jobs[j].res : jobs[j].res[i] # "pending"
    /\ LockFree \/ lock = Poisoned
    /\ LET i == jobs[j].next IN
       IF lock = Poisoned THEN
           /\ jobs' = [jobs EXCEPT ![j] = NoJob]
           /\ UNCHANGED cache
       ELSE
           /\ cache' = IF jobs[j].res[i] = "ok"
                          THEN ReconcileWrite(cache, jobs[j].checks[i].name)
                          ELSE cache
           /\ jobs' = IF i = Len(jobs[j].checks)
                         THEN [jobs EXCEPT ![j] = NoJob]
                         ELSE [jobs EXCEPT ![j].next = i + 1]
    /\ UNCHANGED <<lock, files, regex_url, call, tasks, calls, disk, b64>>
    /\ UNCHANGED aside

\* Dispatcher::load_from_b64
LoadB64(c) ==
    /\ call[c].pc = "entry" /\ call[c].op = "load_from_b64"
    /\ LET bin == B64Decode(call[c].data) IN
       IF bin = None THEN
           /\ Finish(c, "Base64DecodeError", None)
           /\ UNCHANGED cache
       ELSE
           /\ LockFree
           /\ LET p == Deserialize(bin[1]) IN
              IF p = None THEN
                  /\ Finish(c, "BinaryEncodeError", None)
                  /\ UNCHANGED cache
              ELSE
                  /\ cache' = Extend(cache, p[1])
                  /\ Finish(c, "Ok", None)
    /\ UNCHANGED <<lock, files, regex_url, tasks, calls, persist>>
    /\ UNCHANGED aside

\* The positions at which a call takes the cache lock next
AtLock(c) ==
    \/ call[c].pc = "entry"
       /\ call[c].op \in {"remove_service", "up", "down", "status", "get_url",
                           "list", "save", "save_as_b64"}
    \/ call[c].pc = "entry" /\ call[c].op = "load_from_b64"
       /\ B64Decode(call[c].data) # None
    \/ call[c].pc \in {"sky", "insert", "load_extend", "load_scan"}

\* self.services.lock()? / cache.lock()? on a poisoned mutex: the PoisonError
\* becomes ServicingError::LockError and the call returns it
LockPoisoned(c) ==
    /\ lock = Poisoned
    /\ AtLock(c)
    /\ Finish(c, "LockError", None)
    /\ UNCHANGED <<cache, lock, files, regex_url, tasks, calls, persist>>
    /\ UNCHANGED aside

\* The process ends and a new one starts: CACHE is a static that
\* Dispatcher::new fills with an empty map; the files and the saved string
\* outlive it
Restart ==
    /\ \A c \in Callers : call[c].pc \in {"idle", "done"}
    /\ cache # <<>>
    /\ disk # None \/ b64 # None
    /\ cache' = <<>>
    /\ lock' = NoHolder
    /\ regex_url' = FALSE
    /\ call' = [c \in Callers |-> IdleCall]
    /\ tasks' = [t \in TaskIds |-> NoTask]
    /\ jobs' = [j \in JobIds |-> NoJob]
    /\ UNCHANGED <<files, calls, disk, b64>>
    /\ UNCHANGED aside

\* ------------------------------------------------------------ the system
Next ==
    \/ \E c \in Callers :
          \/ Invoke(c)
          \/ Return(c)
          \/ AddSetup(c)
          \/ AddInsert(c)
          \/ Dispatch(c)
          \/ DispatchRemove(c)
          \/ SkyRemoveCheck(c)
          \/ RemoveDelete(c)
          \/ SkyUpCheck(c)
          \/ UpWait(c)
          \/ UpStatus(c)
          \/ SkyDownCheck(c)
          \/ DownRun(c)
          \/ SkyStatusCheck(c)
          \/ StatusRead(c)
          \/ StatusProbe(c)
          \/ GetUrl(c)
          \/ List(c)
    \/ \E t \in TaskIds :
          \/ PollFetch(t)
          \/ PollSleep(t)
          \/ PollSet(t)

Spec == Init /\ [][Next]_vars

\* ------------------------------------------------- the one worker thread
\* Dispatcher::new builds the runtime with worker_threads(1): the pollers and
\* the I/O and timer drivers all run on that one thread.  A poller that calls
\* the std Mutex's lock() while a caller owns the guard blocks the thread
\* (pc "blocked"); until it gets the guard no other poller runs and no
\* future that waits for I/O completes, the fetch that Sky::status drives
\* with Handle::block_on on the caller's thread included.
WorkerFree == \A t \in TaskIds : tasks[t].pc # "blocked"

\* One caller issues the calls, one after the other
LiveCallers == {"c1"}

InvokeLive(c) ==
    /\ c \in LiveCallers
    /\ call[c].pc = "idle"
    /\ calls < MaxLiveCalls
    /\ \E op \in Ops, name \in Names, force \in BOOLEAN :
          /\ (op # "down" => force = FALSE)
          /\ call' = [call EXCEPT ![c] =
                        [IdleCall EXCEPT !.pc = "entry", !.op = op,
                                         !.name = name, !.force = force]]
    /\ calls' = calls + 1
    /\ UNCHANGED <<cache, lock, files, regex_url, tasks, persist>>
    /\ UNCHANGED aside

\* A fetch of the poller that meets no transport error
PollFetchLive(t) ==
    /\ WorkerFree
    /\ PollFetch(t)
    /\ tasks'[t] # NoTask

\* A fetch of the poller that gets a response without the marker
PollReady(t) ==
    /\ PollFetchLive(t)
    /\ tasks'[t].pc = "lock"

PollSleepLive(t) == WorkerFree /\ PollSleep(t)

\* cache_clone.lock() finds the guard free
PollSetLive(t) == WorkerFree /\ PollSet(t)

\* cache_clone.lock() finds the guard taken: the worker thread blocks
PollBlock(t) ==
    /\ WorkerFree
    /\ tasks[t].pc = "lock"
    /\ ~LockFree
    /\ tasks' = [tasks EXCEPT ![t].pc = "blocked"]
    /\ UNCHANGED <<cache, lock, files, regex_url, call, calls, persist>>
    /\ UNCHANGED aside

\* The guard is released and the blocked poller gets it (lines 162-171)
PollAcquire(t) ==
    /\ tasks[t].pc = "blocked"
    /\ LockFree
    /\ cache' = PollWrite(cache, tasks[t].name)
    /\ tasks' = [tasks EXCEPT ![t] = NoTask]
    /\ UNCHANGED <<lock, files, regex_url, call, calls, persist>>
    /\ UNCHANGED aside

\* handle.block_on(fetch) completes only while the worker drives the I/O
StatusProbeLive(c) == WorkerFree /\ StatusProbe(c)

\* What continues a call that is in progress.  RemoveDelete is not here:
\* with one caller nobody re-adds the name between the two lookups of
\* remove_service, so the call always ends in SkyRemoveCheck
CallerStep(c) ==
    \/ AddSetup(c)
    \/ AddInsert(c)
    \/ Dispatch(c)
    \/ DispatchRemove(c)
    \/ SkyRemoveCheck(c)
    \/ SkyUpCheck(c)
    \/ UpWait(c)
    \/ UpStatus(c)
    \/ SkyDownCheck(c)
    \/ DownRun(c)
    \/ SkyStatusCheck(c)
    \/ StatusRead(c)
    \/ StatusProbeLive(c)
    \/ GetUrl(c)
    \/ List(c)

NextLive ==
    \/ \E c \in Callers :
          \/ InvokeLive(c)
          \/ Return(c)
          \/ CallerStep(c)
    \/ \E t \in TaskIds :
          \/ PollFetchLive(t)
          \/ PollSleepLive(t)
          \/ PollSetLive(t)
          \/ PollBlock(t)
          \/ PollAcquire(t)

\* Fairness: every subprocess, file operation and probe of a call ends and a
\* thread that waits for the free mutex gets it; the worker runs a poller
\* that can run; the probed service answers ready again and again
Fairness ==
    /\ \A c \in Callers : WF_vars(CallerStep(c))
    /\ \A t \in TaskIds :
          /\ WF_vars(PollSleepLive(t))
          /\ WF_vars(PollSetLive(t) \/ PollBlock(t))
          /\ WF_vars(PollAcquire(t))
          /\ SF_vars(PollReady(t))

SpecLive == Init /\ [][NextLive]_vars /\ Fairness

\* The worker thread and one caller again, now without the assumption that
\* the probed service ever answers ready: every fetch ends, with the marker
\* or without it
FairnessPoll ==
    /\ \A c \in Callers : WF_vars(CallerStep(c))
    /\ \A t \in TaskIds :
          /\ WF_vars(PollFetchLive(t))
          /\ WF_vars(PollSleepLive(t))
          /\ WF_vars(PollSetLive(t) \/ PollBlock(t))
          /\ WF_vars(PollAcquire(t))

SpecPoll == Init /\ [][NextLive]_vars /\ FairnessPoll

\* The system with save, load and process restarts.  RemoveDelete is not
\* here: with one caller nobody re-adds the name between the two lookups of
\* remove_service, so the call always ends in SkyRemoveCheck
NextPersist ==
    \/ \E c \in Callers :
          \/ InvokePersist(c)
          \/ Return(c)
          \/ AddSetup(c)
          \/ AddInsert(c)
          \/ Dispatch(c)
          \/ DispatchRemove(c)
          \/ SkyRemoveCheck(c)
          \/ SkyUpCheck(c)
          \/ UpWait(c)
          \/ UpStatus(c)
          \/ SkyDownCheck(c)
          \/ DownRun(c)
          \/ SkyStatusCheck(c)
          \/ StatusRead(c)
          \/ StatusProbe(c)
          \/ GetUrl(c)
          \/ List(c)
          \/ SaveSerialize(c)
          \/ SaveWrite(c)
          \/ SaveB64(c)
          \/ LoadRead(c)
          \/ LoadExtend(c)
          \/ LoadScan(c)
          \/ LoadB64(c)
          \/ LockPoisoned(c)
    \/ \E t \in TaskIds :
          \/ PollFetch(t)
          \/ PollSleep(t)
          \/ PollSet(t)
    \/ \E j \in JobIds :
          \/ JobCheck(j)
          \/ JobWrite(j)
    \/ Restart

SpecPersist == Init /\ [][NextPersist]_vars

\* --------------------------------------------- Configuration::update alone
\* A Configuration c and an override o are given; update is applied to the
\* template, which starts as c, again and again with o
InitMerge ==
    /\ cache = <<>>
    /\ lock = NoHolder
    /\ files = {}
    /\ regex_url = FALSE
    /\ call = [c \in Callers |-> IdleCall]
    /\ tasks = [t \in TaskIds |-> NoTask]
    /\ calls = 0
    /\ disk = None
    /\ b64 = None
    /\ jobs = [j \in JobIds |-> NoJob]
    /\ \E c \in {DefaultConfiguration, TestConfiguration}, o \in Overrides :
          merge = [c |-> c, o |-> o, template |-> c, n |-> 0]
    /\ share = NoShare

\* self.template.update(config)
ApplyUpdate ==
    /\ merge.n < MaxUpdates
    /\ merge' = [merge EXCEPT !.template = Update(merge.template, merge.o),
                              !.n = merge.n + 1]
    /\ UNCHANGED <<cache, lock, files, regex_url, call, tasks, calls, persist>>
    /\ UNCHANGED share

NextMerge == ApplyUpdate

SpecMerge == InitMerge /\ [][NextMerge]_vars

\* ------------------------------------------- Dispatcher::new and the CACHE
\* CACHE is a static OnceLock<Arc<Mutex<HashMap>>>; a Dispatcher and a poller
\* hold clones of the Arc.  share.cells are the maps that were allocated, a
\* reference is an index into them.  The methods are reduced to what they
\* do to the map their Dispatcher refers to.

\* The Dispatcher methods, the Configuration and the files stay as they start
ProgramIdle ==
    UNCHANGED <<cache, lock, files, regex_url, call, tasks, calls, persist, merge>>

\* A Dispatcher::new that allocates a map of its own every time
GetOrInitAlways(sh) ==
    [sh EXCEPT !.cells = Append(sh.cells, <<>>),
               !.CACHE = Some(Len(sh.cells) + 1)]

\* CACHE.get_or_init(Default::default): the first call allocates an empty
\* map and stores the reference, a later call finds it
GetOrInit(sh) ==
    IF sh.CACHE = None
       THEN [sh EXCEPT !.cells = Append(sh.cells, <<>>),
                       !.CACHE = Some(Len(sh.cells) + 1)]
       ELSE sh

\* Dispatcher::new: services = CACHE.get_or_init(..).clone()
New(d) ==
    /\ share.services[d] = None
    /\ share' = [GetOrInit(share) EXCEPT !.services[d] = GetOrInit(share).CACHE]
    /\ ProgramIdle

\* add_service through Dispatcher d: insert into the map d refers to
ShareAdd(d, n) ==
    /\ share.services[d] # None
    /\ LET r == share.services[d][1] IN
       share' = [share EXCEPT !.cells[r] =
                    Insert(share.cells[r], n, NewService(n, "SkyPilot", None))]
    /\ ProgramIdle

\* up through Dispatcher d: the url is written into the map d refers to
\* and the poller gets cache.clone()
ShareUp(d, n, t) ==
    /\ share.services[d] # None
    /\ share.pollers[t] = None
    /\ LET r == share.services[d][1] IN
       /\ n \in DOMAIN share.cells[r]
       /\ share.cells[r][n].url = None
       /\ \E url \in Endpoints :
             share' = [share EXCEPT !.cells[r][n].url = Some(url),
                                    !.pollers[t] = Some([cell |-> r, name |-> n])]
    /\ ProgramIdle

\* down through Dispatcher d
ShareDown(d, n) ==
    /\ share.services[d] # None
    /\ LET r == share.services[d][1] IN
       /\ n \in DOMAIN share.cells[r]
       /\ DownClears(share.cells[r][n])
       /\ share' = [share EXCEPT !.cells[r][n].url = None,
                                  !.cells[r][n].up = FALSE]
    /\ ProgramIdle

\* The poller writes up = TRUE into the map its clone refers to, and ends
SharePoll(t) ==
    /\ share.pollers[t] # None
    /\ LET r == share.pollers[t][1].cell
           n == share.pollers[t][1].name IN
       share' = [share EXCEPT !.cells[r] = PollWrite(share.cells[r], n),
                              !.pollers[t] = None]
    /\ ProgramIdle

NextShare ==
    \/ \E d \in Dispatchers :
          \/ New(d)
          \/ \E n \in Names :
                \/ ShareAdd(d, n)
                \/ ShareDown(d, n)
                \/ \E t \in TaskIds : ShareUp(d, n, t)
    \/ \E t \in TaskIds : SharePoll(t)

SpecShare == Init /\ [][NextShare]_vars

\* ------------------------------------------------ load beside another call
\* One caller adds, saves and loads while a second caller brings services
\* up: what load finds at its second lock is not what its merge left
ReloadOps == [c1 |-> {"add_service", "save", "load"}, c2 |-> {"up"}]

InvokeReload(c) ==
    /\ call[c].pc = "idle"
    /\ calls < MaxReloadCalls
    /\ \E op \in ReloadOps[c], name \in Names \cup {""}, flag \in BOOLEAN :
          /\ (op # "load" => flag = FALSE)
          /\ (op \in PersistOps <=> name = "")
          /\ call' = [call EXCEPT ![c] =
                        [IdleCall EXCEPT !.pc = "entry", !.op = op, !.name = name,
                                         !.update_status = flag]]
    /\ calls' = calls + 1
    /\ UNCHANGED <<cache, lock, files, regex_url, tasks, persist>>
    /\ UNCHANGED aside

NextReload ==
    \/ \E c \in Callers :
          \/ InvokeReload(c)
          \/ Return(c)
          \/ AddSetup(c)
          \/ AddInsert(c)
          \/ Dispatch(c)
          \/ SkyUpCheck(c)
          \/ UpWait(c)
          \/ UpStatus(c)
          \/ SaveSerialize(c)
          \/ SaveWrite(c)
          \/ LoadRead(c)
          \/ LoadExtend(c)
          \/ LoadScan(c)
    \/ \E t \in TaskIds :
          \/ PollFetch(t)
          \/ PollSleep(t)
          \/ PollSet(t)
    \/ \E j \in JobIds :
          \/ JobCheck(j)
          \/ JobWrite(j)

SpecReload == Init /\ [][NextReload]_vars

\* ------------------------------------------------------------ the claims
\* The caller is inside a blocking I/O call of its operation
InIO(c) ==
    \/ call[c].pc \in {"up_wait", "up_status", "down_run",
                       "status_read", "status_probe", "remove_delete"}
    \/ call[c].pc = "entry" /\ call[c].op = "add_service"

\* The caller is between the spawn of its bring-up subprocess and the
\* assignment of the url
InUpLaunch(c) == call[c].pc \in {"up_wait", "up_status"}

\* The step in which the call of c ends
Ends(c) == call[c].pc # "done" /\ call'[c].pc = "done"

\* C1: every record with up = TRUE has its url set.
C1_UpImpliesEndpoint ==
    \A n \in DOMAIN cache : cache[n].up => IsSome(cache[n].url)

\* C2: remove_service on a record that has a url or is up fails with
\* ClusterProvisionError (the ProvisionFailed kind).
C2_RemoveRunningIsProvisionFailed ==
    \A c \in Callers :
        (/\ call[c].pc = "done"
         /\ call[c].op = "remove_service"
         /\ IsSome(call[c].svc)
         /\ RemoveRefused(call[c].svc[1]))
        => call[c].result = "ClusterProvisionError"

\* C3: when remove_service fails on a record that is up or has a url, the
\* record is still in the cache, unchanged, and its file still exists.
C3_FailedRemoveKeepsRecord ==
    [][\A c \in Callers :
          (/\ Ends(c)
           /\ call'[c].op = "remove_service"
           /\ IsSome(call'[c].svc)
           /\ RemoveRefused(call'[c].svc[1])
           /\ call'[c].result # "Ok")
          => /\ call[c].name \in DOMAIN cache'
             /\ cache'[call[c].name] = call'[c].svc[1]
             /\ (call'[c].svc[1].filepath[1] \in files
                    => call'[c].svc[1].filepath[1] \in files')]_vars

\* C4: remove_service on a registered record that is fully down returns Ok,
\* deletes the configuration file and leaves the name out of the cache
\* (a failure of the file deletion itself apart).
C4_RemoveDownSucceeds ==
    [][\A c \in Callers :
          (/\ Ends(c)
           /\ call'[c].op = "remove_service"
           /\ IsSome(call'[c].svc)
           /\ ~RemoveRefused(call'[c].svc[1])
           /\ call'[c].result # "IO")
          => /\ call'[c].result = "Ok"
             /\ call'[c].svc[1].filepath[1] \notin files'
             /\ call[c].name \notin DOMAIN cache']_vars

\* C5 as stated: of two up calls for one name that are in progress together
\* (neither has returned), at most one launches a bring-up subprocess.
C5_ExactlyOneLaunch ==
    \A c \in Callers, d \in Callers :
        (/\ c # d
         /\ call[c].op = "up" /\ call[d].op = "up"
         /\ call[c].name = call[d].name)
        => ~(call[c].launched /\ call[d].launched)

\* C5 as amended: a caller whose bring-up subprocess (or the status query
\* after it) is running owns the cache lock, the record is there and has no
\* url, and no other caller is at that stage: two up calls never run their
\* subprocesses together, and the second launches only a record still
\* without url.
C5_OneLaunchAtATime ==
    \A c \in Callers :
        InUpLaunch(c) =>
            /\ lock = c
            /\ call[c].name \in DOMAIN cache
            /\ cache[call[c].name].url = None
            /\ \A d \in Callers \ {c} : ~InUpLaunch(d)

\* C5 witness: one up call runs its subprocess while a second up call for
\* the same name waits for the lock.
C5_Witness ==
    \E c \in Callers, d \in Callers :
        /\ c # d
        /\ call[c].pc = "up_wait"
        /\ call[d].op = "up" /\ call[d].name = call[c].name
        /\ call[d].pc = "sky"

\* C6: while up(A) waits for its subprocess, an up(B) for another registered
\* name without url can take its next step (lock the cache, launch).
C6_DistinctNamesDontBlock ==
    \A c \in Callers, d \in Callers :
        (/\ c # d
         /\ call[c].op = "up" /\ call[c].pc = "up_wait"
         /\ call[d].op = "up" /\ call[d].pc \in {"entry", "sky"}
         /\ call[d].name # call[c].name
         /\ call[d].name \in DOMAIN cache
         /\ cache[call[d].name].url = None)
        => ENABLED (Dispatch(d) \/ SkyUpCheck(d))

\* C7: a caller that is running a subprocess, an HTTP request or a file
\* operation does not own the cache lock.
C7_NoLockDuringIO ==
    \A c \in Callers : InIO(c) => lock # c

\* The step in which Sky::up looks at a record that has a url
UpOnEndpoint(c) ==
    /\ call[c].pc = "sky" /\ call[c].op = "up"
    /\ call'[c].pc # "sky"
    /\ call[c].name \in DOMAIN cache
    /\ IsSome(cache[call[c].name].url)

\* C8 as stated: up on a record that has a url fails with AlreadyRunning,
\* launches nothing, starts no poller and leaves the record unchanged.
C8_UpOnEndpointIsAlreadyRunning ==
    [][\A c \in Callers :
          UpOnEndpoint(c) =>
              /\ call'[c].pc = "done"
              /\ call'[c].result = "AlreadyRunning"
              /\ ~call'[c].launched
              /\ tasks' = tasks
              /\ cache' = cache]_vars

\* C8 as amended: up on a record that has a url fails with
\* ClusterProvisionError (the ProvisionFailed kind, message "already
\* running"), launches nothing, starts no poller and leaves the cache, the
\* lock and the files unchanged.
C8_UpOnEndpointFails ==
    [][\A c \in Callers :
          UpOnEndpoint(c) =>
              /\ call'[c].pc = "done"
              /\ call'[c].result = "ClusterProvisionError"
              /\ ~call'[c].launched
              /\ tasks' = tasks
              /\ cache' = cache
              /\ lock' = lock
              /\ files' = files]_vars

\* C8 witness: an up call ended in ClusterProvisionError without a launch, on
\* a record that has a url.
C8_Witness ==
    \E c \in Callers :
        /\ call[c].pc = "done" /\ call[c].op = "up"
        /\ call[c].result = "ClusterProvisionError"
        /\ ~call[c].launched
        /\ call[c].name \in DOMAIN cache
        /\ IsSome(cache[call[c].name].url)

\* C9: a successful up returns with url = the endpoint found and up = FALSE,
\* get_url then gives that endpoint, and up turns TRUE only in a step of a
\* poller of that name that saw a ready response.
C9_UpReturnsNotReady ==
    [][/\ \A c \in Callers :
             (/\ call[c].pc = "up_status"
              /\ Ends(c)
              /\ call'[c].result = "Ok")
             => /\ IsSome(cache'[call[c].name].url)
                /\ cache'[call[c].name].url[1] \in Endpoints
                /\ cache'[call[c].name].up = FALSE
       /\ \A c \in Callers :
             (/\ call[c].op = "get_url" /\ Ends(c)
              /\ call[c].name \in DOMAIN cache
              /\ IsSome(cache[call[c].name].url))
             => call'[c].value = cache[call[c].name].url
       /\ \A n \in DOMAIN cache :
             (/\ ~cache[n].up
              /\ n \in DOMAIN cache' /\ cache'[n].up)
             => \E t \in TaskIds :
                   /\ tasks[t].pc = "lock" /\ tasks[t].name = n
                   /\ tasks'[t] = NoTask]_vars

\* C10: when up fails because the subprocess exited non-zero or because the
\* status output holds no endpoint, the record has no url and up = FALSE,
\* no poller was started and the caller is done (nothing is retried).
C10_FailedUpLeavesRecordDown ==
    [][\A c \in Callers :
          (/\ InUpLaunch(c)
           /\ Ends(c)
           /\ call'[c].result \in {"ClusterProvisionError", "General"})
          => /\ cache' = cache
             /\ cache'[call[c].name].url = None
             /\ cache'[call[c].name].up = FALSE
             /\ tasks' = tasks]_vars

\* The step in which Sky::down looks at a record that has no url and is not up
DownOnIdleRecord(c) ==
    /\ call[c].pc = "sky" /\ call[c].op = "down"
    /\ call'[c].pc # "sky"
    /\ call[c].name \in DOMAIN cache
    /\ cache[call[c].name].url = None
    /\ ~cache[call[c].name].up

\* C11: down on a registered record without url and with up = FALSE fails
\* with ServiceNotUp (the NotRunning kind) and runs no subprocess when force
\* is false or absent; with force = TRUE it goes on to run `sky serve down`.
C11_DownOnIdleNeedsForce ==
    [][\A c \in Callers :
          DownOnIdleRecord(c) =>
              IF call[c].force
                 THEN /\ call'[c].pc = "down_run"
                      /\ call'[c].result # "ServiceNotUp"
                 ELSE /\ call'[c].pc = "done"
                      /\ call'[c].result = "ServiceNotUp"
                      /\ call'[c].exit = ""
                      /\ cache' = cache]_vars

\* C11 witness: one down without force was refused with ServiceNotUp and ran
\* no subprocess, while a forced down of the same idle record is at its
\* subprocess.
C11_Witness ==
    \E c \in Callers, d \in Callers :
        /\ call[c].pc = "done" /\ call[c].op = "down" /\ ~call[c].force
        /\ call[c].result = "ServiceNotUp" /\ call[c].exit = ""
        /\ call[d].pc = "down_run" /\ call[d].force
        /\ call[d].name = call[c].name
        /\ call[d].name \in DOMAIN cache
        /\ ~DownClears(cache[call[d].name])
        /\ \A t \in TaskIds : tasks[t] = NoTask

\* C12: down on a record that is up or has a url clears both fields in the
\* step before its subprocess runs, and the record has no url and up = FALSE
\* when down returns (a down without force reaches its subprocess only
\* through the clearing arm).
C12_DownLeavesRecordDown ==
    [][\A c \in Callers :
          /\ (/\ call[c].pc = "sky" /\ call[c].op = "down"
              /\ call'[c].pc # "sky"
              /\ call[c].name \in DOMAIN cache
              /\ DownClears(cache[call[c].name]))
             => /\ call'[c].pc = "down_run"
                /\ cache'[call[c].name].url = None
                /\ cache'[call[c].name].up = FALSE
          /\ (/\ call[c].pc = "down_run" /\ ~call[c].force
              /\ Ends(c)
              /\ call[c].name \in DOMAIN cache')
             => /\ cache'[call[c].name].url = None
                /\ cache'[call[c].name].up = FALSE]_vars

\* C13: a down whose subprocess could not be launched, or exited with a
\* non-zero code, returns an error.
C13_DownPropagatesFailure ==
    \A c \in Callers :
        (/\ call[c].pc = "done" /\ call[c].op = "down"
         /\ call[c].exit \in {"spawn_err", "nonzero"})
        => call[c].result # "Ok"

\* The operations that look a name up and fail when it is missing
LookupOps == {"status", "up", "down", "remove_service", "get_url"}

\* The step in which an operation looks up a name that is not in the cache:
\* the lookup of the Dispatcher method, or the second lookup in Sky
LookupMisses(c) ==
    /\ call[c].name \notin DOMAIN cache
    /\ call'[c] # call[c]
    /\ \/ call[c].pc = "entry" /\ call[c].op \in LookupOps
       \/ call[c].pc = "sky" /\ call[c].op \in {"status", "up", "down"}

\* C14: status, up, down, remove_service and get_url on a name that is not
\* in the cache return ServiceNotFound (the NotFound kind), run no subprocess
\* and no probe, and leave the cache, the pollers and the files unchanged.
C14_MissingNameIsNotFound ==
    [][\A c \in Callers :
          LookupMisses(c) =>
              /\ call'[c].pc = "done"
              /\ call'[c].result = "ServiceNotFound"
              /\ ~call'[c].launched
              /\ call'[c].exit = "" /\ call'[c].resp = None
              /\ cache' = cache
              /\ tasks' = tasks
              /\ files' = files
              /\ lock' = lock]_vars

\* C14 witness: a get_url and another lookup operation both ended in
\* ServiceNotFound on a name that is not in the cache.
C14_Witness ==
    \E c \in Callers, d \in Callers :
        /\ call[c].pc = "done" /\ call[c].op = "get_url"
        /\ call[c].result = "ServiceNotFound"
        /\ call[c].name \notin DOMAIN cache
        /\ call[d].pc = "done" /\ call[d].op \in LookupOps \ {"get_url"}
        /\ call[d].result = "ServiceNotFound"
        /\ call[d].svc = None /\ ~call[d].launched
        /\ call[d].name \notin DOMAIN cache

\* C15: status on a record with up = TRUE makes one probe; a probe that
\* fails or answers not-ready sets up = FALSE in the cache and in the
\* snapshot and leaves the url; a ready probe leaves the record unchanged;
\* status on a record with up = FALSE makes no probe and changes nothing.
C15_StatusProbesUpRecords ==
    [][\A c \in Callers :
          LET name == call[c].name IN
          /\ (call[c].pc = "status_read" /\ Ends(c) /\ call'[c].result = "Ok")
             => /\ ~cache[name].up
                /\ cache' = cache
                /\ call'[c].value = Some(cache[name])
          /\ (call[c].pc = "status_read" /\ call'[c].pc = "status_probe")
             => cache[name].up
          /\ (call[c].pc = "status_probe" /\ Ends(c))
             => /\ call'[c].value = Some(cache'[name])
                /\ IF ProbeReady(call'[c].resp)
                      THEN cache' = cache
                      ELSE cache' = [cache EXCEPT ![name].up = FALSE]]_vars

\* C19: a poller that takes the lock and finds its record absent, without
\* url (brought down) or with another url than the one it polls, changes no
\* record.
C19_StalePollerHasNoEffect ==
    [][\A t \in TaskIds :
          (/\ tasks[t].pc = "lock" /\ tasks'[t] = NoTask
           /\ \/ tasks[t].name \notin DOMAIN cache
              \/ cache[tasks[t].name].url = None
              \/ ProbeUrl(cache[tasks[t].name].url[1]) # tasks[t].url)
          => cache' = cache]_vars

\* The step in which load or load_from_b64 merges its payload into the cache
LoadMerged(c) ==
    \/ /\ call[c].pc = "load_extend"
       /\ call'[c].pc \in {"load_scan", "done"}
       /\ call'[c].result \notin {"BinaryEncodeError", "LockError"}
    \/ /\ call[c].pc = "entry" /\ call[c].op = "load_from_b64"
       /\ call'[c].pc = "done" /\ call'[c].result = "Ok"

\* The map in the payload that the call of c loads
Payload(c) ==
    IF call[c].op = "load" THEN Deserialize(call[c].bin[1])[1]
    ELSE Deserialize(B64Decode(call[c].data)[1])[1]

\* C16: what save writes and what save_as_b64 returns decodes to exactly the
\* cache that was saved (same names, same fields), save puts those bytes in
\* the file, and a load or load_from_b64 into an empty cache leaves exactly
\* the map of its payload.
C16_SaveLoadRoundTrip ==
    [][\A c \in Callers :
          /\ (call[c].pc = "entry" /\ call'[c].pc = "save_write")
             => Deserialize(call'[c].bin[1]) = Some(cache)
          /\ (call[c].pc = "save_write" /\ Ends(c) /\ call'[c].result = "Ok")
             => disk' = call[c].bin
          /\ (call[c].op = "save_as_b64" /\ Ends(c) /\ call'[c].result = "Ok")
             => /\ B64Decode(b64'[1]) # None
                /\ Deserialize(B64Decode(b64'[1])[1]) = Some(cache)
          /\ (call[c].pc = "entry" /\ call'[c].pc = "load_extend")
             => call'[c].bin = disk
          /\ (LoadMerged(c) /\ cache = <<>>)
             => cache' = Payload(c)]_vars

\* C16 witness: in a new process (nothing was added, the cache was empty)
\* load_from_b64 of the saved string has returned Ok and the cache is the
\* saved map, with a record that has a url.
C16_Witness ==
    \E c \in Callers :
        /\ call[c].pc = "done" /\ call[c].op = "load_from_b64"
        /\ call[c].result = "Ok"
        /\ ~regex_url
        /\ \E n \in DOMAIN cache : IsSome(cache[n].url)
        /\ call[c].data = b64[1]
        /\ Some(cache) = Deserialize(B64Decode(b64[1])[1])

\* C17: after load or load_from_b64 merges payload P into cache C the keys
\* are keys(C) union keys(P), every name of P has P's record and every
\* other name of C keeps its record.
C17_LoadMerges ==
    [][\A c \in Callers :
          LoadMerged(c) =>
              /\ DOMAIN cache' = DOMAIN cache \cup DOMAIN Payload(c)
              /\ \A n \in DOMAIN Payload(c) : cache'[n] = Payload(c)[n]
              /\ \A n \in DOMAIN cache \ DOMAIN Payload(c) :
                    cache'[n] = cache[n]]_vars

\* C17 witness: after add, save, up and load (four calls) the record that up
\* gave a url has the payload's record again, without url, while the poller
\* of that up is still alive.
C17_Witness ==
    \E c \in Callers, t \in TaskIds :
        /\ calls = 4
        /\ call[c].pc = "done" /\ call[c].op = "load" /\ call[c].result = "Ok"
        /\ tasks[t].pc # "none"
        /\ tasks[t].name \in DOMAIN cache
        /\ cache[tasks[t].name].url = None
        /\ Deserialize(disk[1]) = Some(cache)

\* up turns TRUE for name n in this step (or a record with up = TRUE appears)
UpAppears(n) ==
    /\ n \in DOMAIN cache' /\ cache'[n].up
    /\ n \notin DOMAIN cache \/ ~cache[n].up

\* The step is the write of a poller of n that saw a ready response
PollerSets(n) ==
    \E t \in TaskIds :
        tasks[t].pc = "lock" /\ tasks[t].name = n /\ tasks'[t] = NoTask

\* The step is the write of a reconcile job for n, whose check gave Ok
JobSets(n) ==
    \E j \in JobIds :
        /\ jobs[j].pc = "run" /\ jobs'[j] # jobs[j]
        /\ \A i \in DOMAIN jobs[j].res : jobs[j].res[i] # "pending"
        /\ jobs[j].checks[jobs[j].next].name = n
        /\ jobs[j].res[jobs[j].next] = "ok"

\* The step merges a payload in which n is up
LoadRestores(n) ==
    \E c \in Callers :
        /\ LoadMerged(c)
        /\ n \in DOMAIN Payload(c)
        /\ Payload(c)[n].up

\* C18 as stated: up turns TRUE (or a record with up = TRUE appears) only in
\* the write of a poller or of a reconcile job of that name after a ready
\* probe; no other step, load and load_from_b64 included, does it.
C18_UpOnlyAfterProbe ==
    [][\A n \in Names : UpAppears(n) => PollerSets(n) \/ JobSets(n)]_vars

\* C18 as amended: up turns TRUE only in the write of a poller or of a
\* reconcile job of that name after a ready probe, or when load or
\* load_from_b64 merges a payload whose record of that name has up = TRUE.
C18_UpOnlyAfterProbeOrLoad ==
    [][\A n \in Names :
          UpAppears(n) => PollerSets(n) \/ JobSets(n) \/ LoadRestores(n)]_vars

\* C18 witness: in a new process a load without reconcile has returned and
\* a record is up, as it is in the file, with no poller and no job alive.
C18_Witness ==
    \E c \in Callers, n \in DOMAIN cache :
        /\ call[c].pc = "done" /\ call[c].op = "load" /\ call[c].result = "Ok"
        /\ ~call[c].update_status
        /\ ~regex_url
        /\ cache[n].up
        /\ Deserialize(disk[1])[1][n].up
        /\ \A t \in TaskIds : tasks[t] = NoTask
        /\ \A j \in JobIds : jobs[j] = NoJob

\* A poller of n is alive
Polled(n) == \E t \in TaskIds : tasks[t].pc # "none" /\ tasks[t].name = n

\* The record of n is gone or has no url (removed or brought down), or is up
DownOrUp(n) ==
    \/ n \notin DOMAIN cache
    \/ cache[n].url = None
    \/ cache[n].up

\* C20: when up has started a poller for a name, no probe meets a transport
\* error and the probe answers ready again and again, then under fair
\* scheduling the record is eventually up, unless it is removed or brought
\* down.
C20_EventuallyUp ==
    \A n \in Names : Polled(n) ~> DownOrUp(n)

\* The step in which get_url gets the lock and answers
GetUrlAnswers(c) ==
    /\ call[c].pc = "entry" /\ call[c].op = "get_url"
    /\ Ends(c)
    /\ lock # Poisoned

\* C24: get_url(name) returns the record's url exactly when the record
\* exists and has a url; it fails with "Service is down" (General) when the
\* record exists without url and with ServiceNotFound when the name is not
\* registered; it never changes the cache (on a poisoned mutex it returns
\* LockError, which is C21's matter).
C24_GetUrlAnswers ==
    [][\A c \in Callers :
          GetUrlAnswers(c) =>
              LET name == call[c].name IN
              /\ cache' = cache
              /\ (call'[c].result = "Ok"
                    <=> name \in DOMAIN cache /\ IsSome(cache[name].url))
              /\ (call'[c].result = "Ok" => call'[c].value = cache[name].url)
              /\ (call'[c].result = "General"
                    <=> name \in DOMAIN cache /\ cache[name].url = None)
              /\ (call'[c].result = "ServiceNotFound"
                    <=> name \notin DOMAIN cache)]_vars

\* C24 witness: get_url has returned the url of a record that is not up yet
\* (its poller is still alive).
C24_Witness ==
    \E c \in Callers, t \in TaskIds :
        /\ call[c].pc = "done" /\ call[c].op = "get_url"
        /\ call[c].result = "Ok"
        /\ call[c].name \in DOMAIN cache
        /\ ~cache[call[c].name].up
        /\ call[c].value = cache[call[c].name].url
        /\ call[c].value[1] \in Endpoints
        /\ tasks[t].pc # "none" /\ tasks[t].name = call[c].name

\* The step in which the fetch of poller t meets a transport error (the
\* process lives on: REGEX_URL, set before any poller exists, stays set)
PollErrs(t) ==
    /\ tasks[t].pc = "fetch"
    /\ tasks' = PollNext(t, None)
    /\ regex_url'

\* C27: a poller whose probe meets a transport error ends in that step,
\* without another fetch and without a write: the cache is unchanged (the
\* record keeps its url and its up flag), the other pollers are unchanged,
\* and no call changes (the caller of up already has its Ok).
C27_PollErrorEndsTask ==
    [][\A t \in TaskIds :
          PollErrs(t) =>
              /\ tasks'[t] = NoTask
              /\ \A u \in TaskIds \ {t} : tasks'[u] = tasks[u]
              /\ cache' = cache
              /\ call' = call
              /\ lock' = lock]_vars

\* C27 witness: after add_service and up (two calls) the up call has its Ok,
\* no poller is left, and the record has its url and up = FALSE: the poller
\* ended on a transport error.
C27_Witness ==
    \E c \in Callers :
        /\ calls = 2
        /\ call[c].pc = "done" /\ call[c].op = "up" /\ call[c].result = "Ok"
        /\ \A t \in TaskIds : tasks[t] = NoTask
        /\ call[c].name \in DOMAIN cache
        /\ IsSome(cache[call[c].name].url)
        /\ ~cache[call[c].name].up

\* C25: of two remove_service calls for one name that have both ended
\* (neither has been handed back yet), at most one ended in Ok; the other
\* ended in an error.
C25_AtMostOneRemove ==
    \A c \in Callers, d \in Callers :
        (/\ c # d
         /\ call[c].pc = "done" /\ call[c].op = "remove_service"
         /\ call[d].pc = "done" /\ call[d].op = "remove_service"
         /\ call[c].name = call[d].name)
        => ~(call[c].result = "Ok" /\ call[d].result = "Ok")

\* C25 witness: two remove_service calls for one registered name have ended,
\* one in Ok and the other in ServiceNotFound, and the name is gone.
C25_Witness ==
    \E c \in Callers, d \in Callers :
        /\ c # d
        /\ call[c].pc = "done" /\ call[c].op = "remove_service"
        /\ call[d].pc = "done" /\ call[d].op = "remove_service"
        /\ call[c].name = call[d].name
        /\ call[c].result = "Ok"
        /\ call[d].result = "ServiceNotFound"
        /\ call[c].name \notin DOMAIN cache

\* C29: the part of add_service that runs Orchestrator::setup changes no
\* record, however it ends (PipPackageError, a serialisation or file error,
\* or success); the insert that follows a successful setup (the mutex not
\* poisoned) changes only the entry of the name, which becomes a record with
\* its filepath set, no url, up = FALSE and readiness_probe "/".
C29_SetupLeavesCache ==
    [][\A c \in Callers :
          LET name == call[c].name IN
          /\ (call[c].op = "add_service" /\ call[c].pc = "entry"
                /\ call'[c].pc # "entry")
             => cache' = cache
          /\ (call[c].pc = "insert" /\ Ends(c) /\ lock # Poisoned)
             => /\ call'[c].result = "Ok"
                /\ DOMAIN cache' = DOMAIN cache \cup {name}
                /\ \A n \in DOMAIN cache \ {name} : cache'[n] = cache[n]
                /\ cache'[name].filepath = Some(ServiceFile(name))
                /\ cache'[name].url = None
                /\ cache'[name].up = FALSE
                /\ cache'[name].readiness_probe = "/"]_vars

\* C29 witness: an add_service has ended in Ok and its record is new, while
\* the record of the other name has a url.
C29_Witness ==
    \E c \in Callers, n \in DOMAIN cache :
        /\ call[c].pc = "done" /\ call[c].op = "add_service"
        /\ call[c].result = "Ok"
        /\ n # call[c].name
        /\ IsSome(cache[n].url)
        /\ call[c].name \in DOMAIN cache
        /\ cache[call[c].name] = call[c].svc[1]

\* The fields of an override that the configuration has a place for
MergedFields == ConfigFieldSet \ {"replica_up_check"}

\* The place in a Configuration that field f of an override goes to
Field(cfg, f) ==
    CASE f = "port" -> cfg.resources.ports
      [] f = "replicas" -> cfg.service.replicas
      [] f = "readiness_probe" -> cfg.service.readiness_probe
      [] f = "cloud" -> cfg.resources.cloud
      [] f = "workdir" -> cfg.workdir
      [] f = "disk_size" -> cfg.resources.disk_size
      [] f = "cpu" -> cfg.resources.cpus
      [] f = "memory" -> cfg.resources.memory
      [] f = "accelerators" -> cfg.resources.accelerators
      [] f = "setup" -> cfg.setup
      [] f = "run" -> cfg.run

\* What field f holds after a merge of o onto c that changes exactly the
\* fields present in o (accelerators is an Option in the Configuration too)
MergedValue(c, o, f) ==
    IF o[f] = None THEN Field(c, f)
    ELSE IF f = "accelerators" THEN o[f] ELSE o[f][1]

\* C22: after one update of the default configuration with an override o,
\* every field present in o (port, replicas, readiness_probe, cloud,
\* workdir, disk_size, cpu, memory, accelerators, setup, run) has o's value
\* and every other field has its default value.
C22_MergeChangesPresentFields ==
    (merge.c = DefaultConfiguration /\ merge.n = 1)
    => \A f \in MergedFields :
          Field(merge.template, f) = MergedValue(merge.c, merge.o, f)

\* C23: two updates of a configuration c with the same override o leave
\* what one update leaves: update(update(c, o), o) = update(c, o).
C23_MergeIdempotent ==
    merge.n = 2 => merge.template = Update(merge.c, merge.o)

\* C23 witness: the override has its replicas, accelerators and run present
\* and port absent, it was applied twice, and the template differs from c
\* in those fields only.
C23_Witness ==
    /\ merge.n = 2
    /\ merge.c = TestConfiguration
    /\ IsSome(merge.o.replicas) /\ IsSome(merge.o.accelerators)
    /\ IsSome(merge.o.run) /\ merge.o.port = None
    /\ merge.template.service.replicas = merge.o.replicas[1]
    /\ merge.template.resources.accelerators = merge.o.accelerators
    /\ merge.template.run = merge.o.run[1]
    /\ merge.template.resources.ports = merge.c.resources.ports
    /\ merge.template # merge.c

\* Poller t is alive and its record is gone or has no url
StalePoller(t) ==
    /\ tasks[t].pc # "none"
    /\ \/ tasks[t].name \notin DOMAIN cache
       \/ cache[tasks[t].name].url = None

\* C26: a poller whose record has been removed or has lost its url
\* eventually ends under fair scheduling, whatever the probe answers (the
\* not-ready marker for ever included).
C26_StalePollerExits ==
    \A t \in TaskIds : StalePoller(t) ~> (tasks[t].pc = "none")

\* The step in which Sky::up looks at a record that has no filepath
UpOnNoPath(c) ==
    /\ call[c].pc = "sky" /\ call[c].op = "up"
    /\ call'[c] # call[c]
    /\ call[c].name \in DOMAIN cache
    /\ cache[call[c].name].filepath = None

\* C28: up on a record without filepath (one that came in through a loaded
\* payload) ends in an error in the step that looks at the record, launches
\* nothing, starts no poller and leaves the cache unchanged; a bring-up
\* subprocess is launched only for a record that has its filepath; and the
\* record that add_service inserts has its filepath.
C28_NoLaunchWithoutPath ==
    [][\A c \in Callers :
          /\ UpOnNoPath(c)
             => /\ call'[c].pc = "done"
                /\ call'[c].result \in {"General", "ClusterProvisionError"}
                /\ ~call'[c].launched
                /\ cache' = cache
                /\ tasks' = tasks
                /\ lock' = lock
          /\ (~call[c].launched /\ call'[c].launched)
             => /\ call[c].name \in DOMAIN cache
                /\ IsSome(cache[call[c].name].filepath)
          /\ (call[c].pc = "insert" /\ Ends(c) /\ call'[c].result = "Ok")
             => IsSome(cache'[call[c].name].filepath)]_vars

\* C28 witness: load_from_b64 brought in a record without filepath, and an
\* up of that name has ended in General without a launch; the record is as
\* it was loaded.
C28_Witness ==
    \E c \in Callers :
        /\ call[c].pc = "done" /\ call[c].op = "up"
        /\ call[c].result = "General"
        /\ ~call[c].launched
        /\ call[c].name \in DOMAIN cache
        /\ cache[call[c].name] = ForeignCache[call[c].name]
        /\ cache[call[c].name].filepath = None
        /\ \A t \in TaskIds : tasks[t] = NoTask

\* The step of add_service in which `pip show skypilot` was run: setup
\* reported the missing package, or went on to the file and the insert
PipChecked(c) ==
    /\ call[c].pc = "entry" /\ call[c].op = "add_service"
    /\ call'[c].result = "PipPackageError" \/ call'[c].pc = "insert"

\* Errors of the steps that come before the first lock() of a call
EarlyErrors == {"IO", "PipPackageError", "Base64DecodeError"}

\* C21: while the mutex is poisoned no step of a call runs a subprocess or
\* writes a file, and a call that ends, ends in LockError (or in the error
\* of a step that comes before its first lock), never in Ok or in a panic.
C21_PoisonedIsLockFailure ==
    [][\A c \in Callers :
          (/\ lock = Poisoned
           /\ call[c].pc \notin {"idle", "done"}
           /\ call'[c] # call[c])
          => /\ ~PipChecked(c)
             /\ ~call'[c].launched
             /\ files' = files
             /\ Ends(c) => call'[c].result \in {"LockError"} \cup EarlyErrors]_vars

\* What Dispatcher d sees when it has the lock: the map it refers to
View(sh, d) == sh.cells[sh.services[d][1]]

\* The step in which a Dispatcher is constructed
Constructs(d) == share.services[d] = None /\ share'.services[d] # None

\* C30: after every step all constructed Dispatchers and all pollers refer
\* to the one map behind CACHE, so each Dispatcher sees the records with the
\* field values any other wrote; and the construction of a further
\* Dispatcher leaves that map as it is.
C30_OneSharedCache ==
    [][/\ \A d \in Dispatchers, e \in Dispatchers :
             (share'.services[d] # None /\ share'.services[e] # None)
             => /\ share'.services[d] = share'.CACHE
                /\ View(share', d) = View(share', e)
       /\ \A t \in TaskIds :
             share'.pollers[t] # None
             => Some(share'.pollers[t][1].cell) = share'.CACHE
       /\ \A d \in Dispatchers, e \in Dispatchers :
             (Constructs(d) /\ share.services[e] # None)
             => /\ share'.CACHE = share.CACHE
                /\ View(share', d) = View(share, e)
                /\ View(share', e) = View(share, e)]_vars

\* C30 witness: every Dispatcher is constructed and one map is allocated;
\* the last Dispatcher sees a record with the url that an up wrote and the
\* up = TRUE that a poller wrote, and the first sees a record that is down.
C30_Witness ==
    /\ \A d \in Dispatchers : share.services[d] # None
    /\ Len(share.cells) = 1
    /\ \E n \in DOMAIN View(share, MaxDispatchers) :
          /\ View(share, MaxDispatchers)[n].up
          /\ IsSome(View(share, MaxDispatchers)[n].url)
    /\ \E n \in DOMAIN View(share, 1) : ~View(share, 1)[n].up

\* The jobs that start in this step, and the names a job checks
JobsStarted == {j \in JobIds : jobs[j].pc = "none" /\ jobs'[j].pc = "run"}
CheckedBy(job) == {job.checks[i].name : i \in DOMAIN job.checks}

\* load returns Ok from its scan with every probe still pending, a job that
\* has all its results writes up = TRUE for the name of an Ok result whose
\* record exists and nothing else, and a load without update_status starts
\* no job
ReconcileSteps ==
    /\ \A c \in Callers :
          /\ (call[c].pc = "load_scan" /\ Ends(c))
             => /\ call'[c].result = "Ok"
                /\ cache' = cache
                /\ \A j \in JobsStarted :
                      \A i \in DOMAIN jobs'[j].res : jobs'[j].res[i] = "pending"
          /\ (call[c].op = "load" /\ ~call[c].update_status
                /\ call'[c] # call[c] /\ call[c].pc # "idle")
             => jobs' = jobs
    /\ \A j \in JobIds :
          (/\ jobs[j].pc = "run" /\ jobs'[j] # jobs[j]
           /\ \A i \in DOMAIN jobs[j].res : jobs[j].res[i] # "pending")
          => LET n == jobs[j].checks[jobs[j].next].name IN
             cache' = IF /\ jobs[j].res[jobs[j].next] = "ok"
                         /\ n \in DOMAIN cache
                         /\ lock # Poisoned
                         THEN [cache EXCEPT ![n].up = TRUE]
                         ELSE cache

\* C31 as stated: load(update_status = true) returns without waiting, the
\* names it checks that its payload merged had a url and up = false right
\* after the merge, the job sets up only for a checked name with an Ok probe
\* whose record exists, and without update_status no probe starts.
C31_ChecksAsMerged ==
    [][/\ ReconcileSteps
       /\ \A c \in Callers :
             (call[c].pc = "load_scan" /\ Ends(c))
             => \A j \in JobsStarted :
                   \A n \in CheckedBy(jobs'[j]) \cap DOMAIN Payload(c) :
                       /\ IsSome(Payload(c)[n].url)
                       /\ ~Payload(c)[n].up]_vars

\* C31 amended: as C31, but the names load checks are the records that have
\* a url and up = false when load locks the cache again after the merge;
\* if there is none no job starts.
C31_ChecksAsScanned ==
    [][/\ ReconcileSteps
       /\ \A c \in Callers :
             (call[c].pc = "load_scan" /\ Ends(c))
             => LET found == {n \in DOMAIN cache :
                                IsSome(cache[n].url) /\ ~cache[n].up} IN
                /\ \A j \in JobsStarted : CheckedBy(jobs'[j]) = found
                /\ (found = {} <=> JobsStarted = {})]_vars

\* C31 witness: load with update_status has returned Ok while the probe of
\* its job is pending, and the name the job checks has no url in the file
\* that was merged: another caller's up gave it one before the scan.
C31_Witness ==
    \E c \in Callers, j \in JobIds :
        /\ call[c].pc = "done" /\ call[c].op = "load" /\ call[c].result = "Ok"
        /\ call[c].update_status
        /\ jobs[j].pc = "run"
        /\ \E i \in DOMAIN jobs[j].checks :
              /\ jobs[j].res[i] = "pending"
              /\ Deserialize(disk[1]) # None
              /\ jobs[j].checks[i].name \in DOMAIN Deserialize(disk[1])[1]
              /\ Deserialize(disk[1])[1][jobs[j].checks[i].name].url = None

\* C32: add_service on a registered name replaces the record: after the
\* insert the record is the new one, with url = None and up = false, every
\* other record and every poller is as before, the call has run no down
\* subprocess, and a poller of that name that takes the lock afterwards
\* still writes up = true in the record it finds.
C32_AddReplaces ==
    [][/\ \A c \in Callers :
             /\ (/\ call[c].pc = "insert" /\ Ends(c)
                 /\ call'[c].result = "Ok"
                 /\ call[c].name \in DOMAIN cache)
                => /\ DOMAIN cache' = DOMAIN cache
                   /\ cache'[call[c].name] = call[c].svc[1]
                   /\ cache'[call[c].name].url = None
                   /\ ~cache'[call[c].name].up
                   /\ \A n \in DOMAIN cache \ {call[c].name} :
                         cache'[n] = cache[n]
                   /\ tasks' = tasks
                   /\ call'[c].exit = IdleCall.exit
             /\ call'[c].op = "add_service" => call'[c].pc # "down_run"
       /\ \A t \in TaskIds :
             (/\ tasks[t].pc = "lock" /\ tasks'[t].pc = "none"
              /\ LockFree /\ regex_url'
              /\ tasks[t].name \in DOMAIN cache)
             => cache' = [cache EXCEPT ![tasks[t].name].up = TRUE]]_vars

\* C32 witness: the third call, add_service on a name that up had given a
\* url, has returned Ok, and the poller of that up has since written
\* up = true in the new record, which has no url.
C32_Witness ==
    \E c \in Callers :
        /\ calls = 3
        /\ call[c].pc = "done" /\ call[c].op = "add_service"
        /\ call[c].result = "Ok"
        /\ \A j \in JobIds : jobs[j].pc = "none"
        /\ call[c].name \in DOMAIN cache
        /\ cache[call[c].name].up
        /\ cache[call[c].name].url = None

\* C33: when remove_service(name) returns, with Ok or with an error, the
\* name is not a key of the cache.
C33_RemovedOnReturn ==
    [][\A c \in Callers :
          (call[c].op = "remove_service" /\ Ends(c)
            /\ call'[c].result # "panic")
          => call[c].name \notin DOMAIN cache']_vars

\* The operations that may change the set of keys, and the step in which
\* the process ends and a new one starts with an empty cache
KeyOps == {"add_service", "remove_service", "load", "load_from_b64"}
ProcessEnds ==
    /\ cache' = <<>>
    /\ \A c \in Callers : call[c].pc \in {"idle", "done"} /\ call'[c] = IdleCall
    /\ \A t \in TaskIds : tasks'[t] = NoTask

\* C34: within a process the set of keys of the cache changes only in a
\* step of add_service, remove_service, load or load_from_b64 (never in a
\* step of up, down, status, get_url, list, save, save_as_b64, a poller or
\* a reconcile job), and a step of up, down or status on one name leaves the
\* record of every other name as it is.
C34_KeysFrame ==
    [][ProcessEnds
       \/ /\ DOMAIN cache' # DOMAIN cache
             => \E c \in Callers :
                   /\ call[c].op \in KeyOps
                   /\ call'[c].op = call[c].op
                   /\ call'[c] # call[c]
          /\ \A c \in Callers :
                (call[c].op \in {"up", "down", "status"} /\ call'[c] # call[c])
                => \A n \in DOMAIN cache \ {call[c].name} :
                      n \in DOMAIN cache' /\ cache'[n] = cache[n]]_vars

\* C34 witness: up on one name has returned Ok and given its record a url
\* while the cache holds the record of another name, still as add_service
\* made it.
C34_Witness ==
    \E c \in Callers, n \in Names :
        /\ call[c].pc = "done" /\ call[c].op = "up" /\ call[c].result = "Ok"
        /\ call[c].name \in DOMAIN cache
        /\ IsSome(cache[call[c].name].url)
        /\ n # call[c].name
        /\ n \in DOMAIN cache
        /\ cache[n] = NewService(n, "SkyPilot", cache[n].config)

\* The call of c is at its first step and is up, down, status or
\* remove_service on a record whose orchestrator is Local
OnLocal(c) ==
    /\ call[c].pc = "entry"
    /\ call[c].op \in {"up", "down", "status", "remove_service"}
    /\ call[c].name \in DOMAIN cache
    /\ cache[call[c].name].orchestrator = "Local"

\* C35: up, down, status or remove_service on a record whose orchestrator is
\* Local panics with the guard alive and leaves the mutex poisoned; the
\* mutex stays poisoned as long as the process lives; from then on every
\* step that locks the cache returns LockError, whatever the name, and
\* changes nothing, and every call that returns, returns LockError.
C35_LocalPoisonsForGood ==
    [][ProcessEnds
       \/ /\ \A c \in Callers :
                (OnLocal(c) /\ lock # Poisoned /\ call'[c] # call[c])
                => /\ call'[c].pc = "done" /\ call'[c].result = "panic"
                   /\ lock' = Poisoned
          /\ lock = Poisoned
             => /\ lock' = Poisoned
                /\ cache' = cache
                /\ \A c \in Callers :
                      /\ (AtLock(c) /\ call'[c] # call[c])
                         => /\ call'[c].pc = "done"
                            /\ call'[c].result = "LockError"
                      /\ Ends(c) => call'[c].result = "LockError"]_vars

====
